---- MODULE Spec2Model ----
(***************************************************************************)
(* dlzoom: the recording selector (recorder_selector.py) and the Zoom      *)
(* timeline -> minimal STJ converter (stj_minimizer.py).                   *)
(*                                                                         *)
(* Both components are stateless: every public function is one action     *)
(* that draws its arguments from a bounded set, applies the function as    *)
(* the code computes it and records the arguments and the outcome.        *)
(*                                                                         *)
(* Python strings are sequences of one-character strings; a dict key that  *)
(* is missing, or holds null, is the tagged value Missing or Null.         *)
(***************************************************************************)
EXTENDS Integers, Sequences, FiniteSets, TLC

VARIABLES
    op,      \* the function called last ("idle" before any call)
    args,    \* the arguments of that call
    result,  \* what the call returned, or the exception it raised
    locals   \* the local variables of the call when it returned (converter only)

vars == <<op, args, result, locals>>

----------------------------------------------------------------------------
(* Bounds of the model *)

MaxFiles == 3        \* longest recording_files list
MaxInstances == 3    \* longest list of meeting instances
MaxEvents == 3       \* longest timeline
MaxNanEvents == 4    \* longest timeline with a NaN timestamp in it
MaxSourceEvents == 2 \* longest timeline when both timeline and timeline_refine are given
MaxSlugEvents == 3   \* longest timeline of participants whose slugs collide
MaxUnknownEvents == 3 \* longest timeline with events that have no speaker
MaxRowEvents == 2    \* longest timeline with rows of unexpected types
MaxRunEvents == 3    \* longest timeline of speaker runs
MaxRecordingFiles == 2 \* longest recording_files list handed to the downloader
MaxMeetings == 2     \* most meeting instances in the API response handed to the download handler
MaxIdentityEvents == 3 \* longest timeline of users with assorted identity fields
MaxRawSegments == 3  \* longest list of raw segments handed to _merge_and_filter_segments
MaxThreads == 2      \* threads that convert documents at the same time

----------------------------------------------------------------------------
(* Generic helpers *)

(* The sequences over S of length at most n *)
SeqsUpTo(S, n) == UNION {[1..k -> S] : k \in 0..n}

MinOf(S) == CHOOSE x \in S : \A y \in S : x <= y

(* Outcomes of a call *)
None == [kind |-> "none"]
Raise(exc) == [kind |-> "raise", exc |-> exc]
Item(i, v) == [kind |-> "item", idx |-> i, val |-> v]   \* the i-th element of the list passed in
Bool(b) == [kind |-> "bool", val |-> b]

(* JSON values of a dict key *)
Missing == [t |-> "missing", v |-> <<>>]
Null == [t |-> "null", v |-> <<>>]
Str(s) == [t |-> "str", v |-> s]

(* dict.get(key, default): the default only for a missing key, null stays None *)
Get(field, default) == IF field.t = "missing" THEN default ELSE field

----------------------------------------------------------------------------
(* RecordingSelector *)

FileTypes == {"audio_only", "shared_screen_with_speaker_view", "CHAT", "None"}
FileExtensions == {"M4A", "MP4", "TXT"}
Files == [file_type : FileTypes, file_extension : FileExtensions]

RECURSIVE FirstFileType(_, _, _)
(* for file in recording_files: if file.get("file_type") == file_type: return file
   -- i is the loop position, 0 stands for "the loop ended" *)
FirstFileType(recording_files, file_type, i) ==
    IF i > Len(recording_files) THEN 0
    ELSE IF recording_files[i].file_type = file_type THEN i
    ELSE FirstFileType(recording_files, file_type, i + 1)

RECURSIVE FirstFileExtension(_, _, _)
(* for file in recording_files: if file.get("file_extension") == ext: return file *)
FirstFileExtension(recording_files, ext, i) ==
    IF i > Len(recording_files) THEN 0
    ELSE IF recording_files[i].file_extension = ext THEN i
    ELSE FirstFileExtension(recording_files, ext, i + 1)

(* A plausible slip: the M4A loop placed before the audio_only loop *)
select_best_audio_m4a_first(recording_files) ==
    LET m4a == FirstFileExtension(recording_files, "M4A", 1)
        audio_only == FirstFileType(recording_files, "audio_only", 1)
        mp4 == FirstFileExtension(recording_files, "MP4", 1)
    IN  IF m4a # 0 THEN Item(m4a, recording_files[m4a])
        ELSE IF audio_only # 0 THEN Item(audio_only, recording_files[audio_only])
        ELSE IF mp4 # 0 THEN Item(mp4, recording_files[mp4])
        ELSE None

select_best_audio(recording_files) ==
    LET audio_only == FirstFileType(recording_files, "audio_only", 1)
        m4a == FirstFileExtension(recording_files, "M4A", 1)
        mp4 == FirstFileExtension(recording_files, "MP4", 1)
    IN  IF audio_only # 0 THEN Item(audio_only, recording_files[audio_only])
        ELSE IF m4a # 0 THEN Item(m4a, recording_files[m4a])
        ELSE IF mp4 # 0 THEN Item(mp4, recording_files[mp4])
        ELSE None

(* The printable ASCII characters, code points 32..126 (the double quote, the backtick and
   the backslash by name): Python orders strings by code point *)
Ascii ==
    <<
      " ", "!", "QUOTE", "#", "$", "%", "&", "'", "(", ")", "*", "+",
      ",", "-", ".", "/", "0", "1", "2", "3", "4", "5", "6", "7",
      "8", "9", ":", ";", "<", "=", ">", "?", "@", "A", "B", "C",
      "D", "E", "F", "G", "H", "I", "J", "K", "L", "M", "N", "O",
      "P", "Q", "R", "S", "T", "U", "V", "W", "X", "Y", "Z", "[",
      "BACKSLASH", "]", "^", "_", "BACKTICK", "a", "b", "c", "d", "e", "f", "g",
      "h", "i", "j", "k", "l", "m", "n", "o", "p", "q", "r", "s",
      "t", "u", "v", "w", "x", "y", "z", "{", "|", "}", "~"
    >>

AsciiCode == [c \in {Ascii[i] : i \in 1..Len(Ascii)} |-> 31 + (CHOOSE i \in 1..Len(Ascii) : Ascii[i] = c)]

CharCode(c) == AsciiCode[c]

(* a < b on Python strings: decided at the first position where they differ,
   a proper prefix being the smaller *)
StrLess(a, b) ==
    LET differ == {i \in 1..Len(a) : i <= Len(b) /\ a[i] # b[i]}
    IN  IF differ = {} THEN Len(a) < Len(b)
        ELSE CharCode(a[MinOf(differ)]) < CharCode(b[MinOf(differ)])

(* start_time strings: the empty string, a string, its extension, a greater one *)
StartTimeStrings == {<<>>, <<"1">>, <<"1", "2">>, <<"2">>}
StartTimes == {Missing, Null} \cup {Str(s) : s \in StartTimeStrings}
Uuids == {"u1", "u2"}
Instances == [uuid : Uuids, start_time : StartTimes]

(* key=lambda x: x.get("start_time", "") *)
StartTimeKey(instance) == Get(instance.start_time, Str(<<>>))

(* One step of a stable descending sort: x goes behind every element that does
   not sort below it.  idxs are positions of the input list, in sorted order. *)
RECURSIVE InsertDescending(_, _, _)
InsertDescending(instances, idxs, x) ==
    IF idxs = <<>> THEN <<x>>
    ELSE IF StrLess(StartTimeKey(instances[idxs[1]]).v, StartTimeKey(instances[x]).v)
         THEN <<x>> \o idxs
         ELSE <<idxs[1]>> \o InsertDescending(instances, Tail(idxs), x)

(* A plausible slip: an unstable sort, x goes in front of the elements equal to it *)
RECURSIVE InsertDescendingUnstable(_, _, _)
InsertDescendingUnstable(instances, idxs, x) ==
    IF idxs = <<>> THEN <<x>>
    ELSE IF ~StrLess(StartTimeKey(instances[x]).v, StartTimeKey(instances[idxs[1]]).v)
         THEN <<x>> \o idxs
         ELSE <<idxs[1]>> \o InsertDescendingUnstable(instances, Tail(idxs), x)

RECURSIVE SortedDescendingFrom(_, _, _)
(* sorted(instances, key=..., reverse=True), from position i on *)
SortedDescendingFrom(instances, idxs, i) ==
    IF i > Len(instances) THEN idxs
    ELSE SortedDescendingFrom(instances, InsertDescending(instances, idxs, i), i + 1)

RECURSIVE SortedDescendingUnstableFrom(_, _, _)
SortedDescendingUnstableFrom(instances, idxs, i) ==
    IF i > Len(instances) THEN idxs
    ELSE SortedDescendingUnstableFrom(instances,
                                      InsertDescendingUnstable(instances, idxs, i), i + 1)

SortedByStartTimeUnstable(instances) == SortedDescendingUnstableFrom(instances, <<>>, 1)

SortedByStartTime(instances) == SortedDescendingFrom(instances, <<>>, 1)

(* Sorting two or more elements compares every one of them at least once, and
   Python's "<" between None and a str (or None) raises TypeError. *)
SortRaises(instances) ==
    /\ Len(instances) >= 2
    /\ \E i \in 1..Len(instances) : StartTimeKey(instances[i]).t = "null"

select_most_recent_instance(instances) ==
    IF instances = <<>> THEN None
    ELSE IF SortRaises(instances) THEN Raise("TypeError")
    ELSE LET first == SortedByStartTime(instances)[1]
         IN  Item(first, instances[first])

RECURSIVE filter_by_uuid_from(_, _, _)
(* for instance in instances: if instance.get("uuid") == uuid: return instance *)
filter_by_uuid_from(instances, uuid, i) ==
    IF i > Len(instances) THEN None
    ELSE IF instances[i].uuid = uuid THEN Item(i, instances[i])
    ELSE filter_by_uuid_from(instances, uuid, i + 1)

filter_by_uuid(instances, uuid) == filter_by_uuid_from(instances, uuid, 1)

(* recordings.get("meetings", []) and len(meetings) > 1; len(None) raises TypeError *)
detect_multiple_instances(recordings) ==
    LET meetings == IF recordings.meetings.t = "missing"
                    THEN [t |-> "list", v |-> <<>>]
                    ELSE recordings.meetings
    IN  IF meetings.t = "list" THEN Bool(Len(meetings.v) > 1) ELSE Raise("TypeError")

(* Arguments of the selector calls *)
FileLists == SeqsUpTo(Files, MaxFiles)
InstanceLists == SeqsUpTo(Instances, MaxInstances)
UuidInstanceLists == SeqsUpTo([uuid : Uuids, start_time : {Missing}], MaxInstances)
UuidArgs == Uuids \cup {"u3"}
Responses ==
    {[meetings |-> Missing], [meetings |-> Null]}
        \cup {[meetings |-> [t |-> "list", v |-> m]] : m \in UuidInstanceLists}

SelectBestAudio ==
    /\ op = "idle"
    /\ \E recording_files \in FileLists :
          /\ op' = "select_best_audio"
          /\ args' = [recording_files |-> recording_files]
          /\ result' = select_best_audio(recording_files)
          /\ locals' = <<>>

SelectMostRecentInstance ==
    /\ op = "idle"
    /\ \E instances \in InstanceLists :
          /\ op' = "select_most_recent_instance"
          /\ args' = [instances |-> instances]
          /\ result' = select_most_recent_instance(instances)
          /\ locals' = <<>>

FilterByUuid ==
    /\ op = "idle"
    /\ \E instances \in UuidInstanceLists, uuid \in UuidArgs :
          /\ op' = "filter_by_uuid"
          /\ args' = [instances |-> instances, uuid |-> uuid]
          /\ result' = filter_by_uuid(instances, uuid)
          /\ locals' = <<>>

DetectMultipleInstances ==
    /\ op = "idle"
    /\ \E recordings \in Responses :
          /\ op' = "detect_multiple_instances"
          /\ args' = [recordings |-> recordings]
          /\ result' = detect_multiple_instances(recordings)
          /\ locals' = <<>>

----------------------------------------------------------------------------
(* stj_minimizer: floats *)

RoundDigits == 3     \* round(s, 3), round(e, 3)

(* Times are counted in ticks of 0.1 ms, one decimal more than round() keeps *)
TicksPerSec == 10 ^ (RoundDigits + 1)
TicksPerMs == TicksPerSec \div 1000

(* A Python float: a finite number of ticks, or NaN (float("nan")) *)
Num(v) == [nan |-> FALSE, v |-> v]
NaN == [nan |-> TRUE, v |-> 0]
Sec(n) == Num(n * TicksPerSec)

(* Every comparison with NaN is False *)
FLess(a, b) == ~a.nan /\ ~b.nan /\ a.v < b.v
FLessEq(a, b) == ~a.nan /\ ~b.nan /\ a.v <= b.v
FSub(a, b) == IF a.nan \/ b.nan THEN NaN ELSE Num(a.v - b.v)
(* max(a, b) keeps a unless b > a; min(a, b) keeps a unless b < a *)
PyMax(a, b) == IF FLess(a, b) THEN b ELSE a
PyMin(a, b) == IF FLess(b, a) THEN b ELSE a

(* round(x, 3) of a number of ticks: to the nearest millisecond, an exact half
   to the even one; round(nan, 3) is nan *)
Round3(x) ==
    IF x.nan THEN NaN
    ELSE LET q == x.v \div TicksPerMs
             r == x.v % TicksPerMs
         IN  IF 2 * r < TicksPerMs THEN Num(q * TicksPerMs)
             ELSE IF 2 * r > TicksPerMs THEN Num((q + 1) * TicksPerMs)
             ELSE IF q % 2 = 0 THEN Num(q * TicksPerMs)
             ELSE Num((q + 1) * TicksPerMs)

(* A "ts" value.  hms: the text HH:MM:SS.ffff, sec in ticks.  nan: the text
   "00:00:nan", which float() accepts.  bad: a text neither path of the parser
   accepts (also str(None) of a missing ts). *)
Hms(h, m, sec) == [form |-> "hms", h |-> h, m |-> m, sec |-> sec]
TsNaN == [form |-> "nan", h |-> 0, m |-> 0, sec |-> 0]
TsBad == [form |-> "bad", h |-> 0, m |-> 0, sec |-> 0]

(* _parse_hhmmss_ms: int(h) * 3600 + int(mm) * 60 + float(s), or ValueError *)
ParseHhmmssMs(ts) ==
    CASE ts.form = "hms" ->
             [ok |-> TRUE, val |-> Num((ts.h * 3600 + ts.m * 60) * TicksPerSec + ts.sec)]
      [] ts.form = "nan" -> [ok |-> TRUE, val |-> NaN]
      [] OTHER -> [ok |-> FALSE, val |-> NaN]

----------------------------------------------------------------------------
(* stj_minimizer: strings and slugs *)

MaxSpeakerIdLen == 64

IsAlnum(c) ==
    LET code == CharCode(c)
    IN  \/ code \in 48..57
        \/ code \in 65..90
        \/ code \in 97..122

(* str.lower() of one character *)
Lower(c) == IF CharCode(c) \in 65..90 THEN Ascii[CharCode(c) + 32 - 31] ELSE c

LowerStr(s) == [i \in 1..Len(s) |-> Lower(s[i])]

Take(s, n) == SubSeq(s, 1, IF n < Len(s) THEN n ELSE Len(s))

RECURSIVE LStrip(_, _)
LStrip(s, c) == IF s # <<>> /\ s[1] = c THEN LStrip(Tail(s), c) ELSE s

RECURSIVE RStrip(_, _)
RStrip(s, c) ==
    IF s # <<>> /\ s[Len(s)] = c THEN RStrip(SubSeq(s, 1, Len(s) - 1), c) ELSE s

(* str.strip(): white space off both ends *)
Strip(s) == RStrip(LStrip(s, " "), " ")

(* re.sub(r"[^A-Za-z0-9]+", "-", name): a hyphen where a run of other characters
   starts, nothing for the rest of the run *)
ReplaceRuns(name) ==
    LET sub == [i \in 1..Len(name) |->
                   IF IsAlnum(name[i]) THEN name[i]
                   ELSE IF i > 1 /\ ~IsAlnum(name[i - 1]) THEN "" ELSE "-"]
    IN  SelectSeq(sub, LAMBDA c : c # "")

Speaker7 == <<"s", "p", "e", "a", "k", "e", "r">>

(* _slugify *)
Slugify(name) ==
    LET s == LowerStr(RStrip(LStrip(ReplaceRuns(name), "-"), "-"))
    IN  IF s = <<>> THEN Speaker7 ELSE s

RECURSIVE IntToStr(_)
(* str(count) *)
IntToStr(n) ==
    LET digit == <<"0", "1", "2", "3", "4", "5", "6", "7", "8", "9">>[(n % 10) + 1]
    IN  IF n < 10 THEN <<digit>> ELSE Append(IntToStr(n \div 10), digit)

(* JSON values of another type than the code expects: a list entry that is no
   object, a number other than 0, and where a list is expected a text of n
   characters or an object of n keys (v: what len() counts, none of it a dict) *)
NotADict == [t |-> "notdict"]
Number == [t |-> "number", v |-> <<>>]
Text(n) == [t |-> "string", v |-> [i \in 1..n |-> NotADict]]
Object(n) == [t |-> "object", v |-> [i \in 1..n |-> NotADict]]
IsDict(x) == "t" \notin DOMAIN x
NoError == "none"

(* (user.get(key) or "").strip() raises AttributeError on a number *)
StripRaises(field) == field.t = "number"

(* (user.get(key) or "").strip() *)
StrippedOrEmpty(field) == IF field.t = "str" THEN Strip(field.v) ELSE <<>>

(* str(uid).strip() of a user_id that is not None: str() of the number is its
   digits, "7" *)
NumberStr == <<"7">>
StrStripped(field) ==
    IF field.t = "str" THEN Strip(field.v)
    ELSE IF field.t = "number" THEN NumberStr
    ELSE <<>>

(* json.dumps(user, sort_keys=True): the keys present, in key order *)
JsonField(key, field) ==
    IF field.t = "missing" THEN <<>>
    ELSE IF field.t = "null" THEN <<key, ":null,">>
    ELSE <<key, ":'">> \o field.v \o <<"',">>

JsonDumps(user) ==
    <<"{">> \o JsonField("user_id", user.user_id)
            \o JsonField("username", user.username)
            \o JsonField("zoom_userid", user.zoom_userid) \o <<"}">>

(* _user_identity_key: the sha1 digest stands for the text it digests *)
UserIdentityKey(user) ==
    LET zid == StrippedOrEmpty(user.zoom_userid)
        uid == StrStripped(user.user_id)
        uname == StrippedOrEmpty(user.username)
    IN  IF zid # <<>> THEN <<"zoom:">> \o zid
        ELSE IF uid # <<>> THEN <<"uid:">> \o uid
        ELSE IF uname # <<>> THEN <<"name:">> \o LowerStr(uname)
        ELSE <<"anon:">> \o JsonDumps(user)

(* _user_identity_key raises: zoom_userid is stripped first, username only when
   neither zoom_userid nor user_id gave a key *)
UserIdentityKeyRaises(user) ==
    \/ StripRaises(user.zoom_userid)
    \/ /\ StrippedOrEmpty(user.zoom_userid) = <<>>
       /\ StrStripped(user.user_id) = <<>>
       /\ StripRaises(user.username)

(* _display_name raises: username is stripped first *)
DisplayNameRaises(user) ==
    \/ StripRaises(user.username)
    \/ StrippedOrEmpty(user.username) = <<>> /\ StripRaises(user.zoom_userid)

(* _display_name *)
DisplayName(user) ==
    LET name == StrippedOrEmpty(user.username)
        zid == StrippedOrEmpty(user.zoom_userid)
        uid == StrStripped(user.user_id)
    IN  IF name # <<>> THEN name
        ELSE IF zid # <<>> THEN zid
        ELSE IF uid # <<>> THEN uid
        ELSE <<"S", "p", "e", "a", "k", "e", "r">>

(* _speaker_extensions: <<>> stands for an absent entry *)
SpeakerExtensions(user) ==
    [participant_id |-> StrippedOrEmpty(user.zoom_userid),
     user_id |-> StrStripped(user.user_id)]

----------------------------------------------------------------------------
(* stj_minimizer: _SpeakerRegistry *)

(* Python dicts as functions *)
EmptyDict == <<>>
DictGet(d, k, default) == IF k \in DOMAIN d THEN d[k] ELSE default
DictSet(d, k, v) == (k :> v) @@ d

NoExtensions == [participant_id |-> <<>>, user_id |-> <<>>]
Speaker(id, name, extensions) == [id |-> id, name |-> name, extensions |-> extensions]

MultipleId == <<"m", "u", "l", "t", "i", "p", "l", "e">>
UnknownId == <<"u", "n", "k", "n", "o", "w", "n">>
MultipleName ==
    <<"M", "u", "l", "t", "i", "p", "l", "e", " ", "s", "p", "e", "a", "k", "e", "r", "s">>
UnknownName == <<"U", "n", "k", "n", "o", "w", "n">>
NoSpeakerId == <<>>      \* speaker_id_for_users returning None

(* A plausible slip: the synthetic speakers are not registered up front *)
NewRegistryWithoutSynthetic(include_unknown, mode) ==
    [identity_to_id |-> EmptyDict, slug_counts |-> EmptyDict, speakers |-> EmptyDict,
     mode |-> mode, include_unknown |-> include_unknown]

(* _SpeakerRegistry.__init__ *)
NewRegistry(include_unknown, mode) ==
    LET withMultiple ==
            IF mode = "multiple"
            THEN DictSet(EmptyDict, MultipleId, Speaker(MultipleId, MultipleName, NoExtensions))
            ELSE EmptyDict
        withUnknown ==
            IF include_unknown
            THEN DictSet(withMultiple, UnknownId, Speaker(UnknownId, UnknownName, NoExtensions))
            ELSE withMultiple
    IN  [identity_to_id |-> EmptyDict, slug_counts |-> EmptyDict, speakers |-> withUnknown,
         mode |-> mode, include_unknown |-> include_unknown]

(* _reserve_slug: the new slug_counts and the slug *)
ReserveSlug(slug_counts, base) ==
    LET slug_base == Take(IF base = <<>> THEN Speaker7 ELSE base, MaxSpeakerIdLen)
        count == DictGet(slug_counts, slug_base, 0) + 1
        suffix == <<"-">> \o IntToStr(count)
        room == MaxSpeakerIdLen - Len(suffix)
        max_base_len == IF room > 1 THEN room ELSE 1
        trimmed == RStrip(Take(slug_base, max_base_len), "-")
    IN  [slug_counts |-> DictSet(slug_counts, slug_base, count),
         slug |-> IF count = 1 THEN slug_base
                  ELSE (IF trimmed = <<>> THEN Speaker7 ELSE trimmed) \o suffix]

(* A plausible slip: no look-up of the identity, every sighting reserves a slug *)
GetOrCreateAlwaysNew(reg, user) ==
    LET key == UserIdentityKey(user)
        name == DisplayName(user)
        reserved == ReserveSlug(reg.slug_counts, Take(Slugify(name), MaxSpeakerIdLen))
    IN  [reg |-> [reg EXCEPT
                     !.slug_counts = reserved.slug_counts,
                     !.speakers = DictSet(reg.speakers, reserved.slug,
                                          Speaker(reserved.slug, name, SpeakerExtensions(user))),
                     !.identity_to_id = DictSet(reg.identity_to_id, key, reserved.slug)],
         id |-> reserved.slug]

(* _get_or_create: the registry afterwards and the speaker id *)
GetOrCreate(reg, user) ==
    LET key == UserIdentityKey(user)
    IN  IF key \in DOMAIN reg.identity_to_id
        THEN [reg |-> reg, id |-> reg.identity_to_id[key]]
        ELSE LET name == DisplayName(user)
                 base_slug == Take(Slugify(name), MaxSpeakerIdLen)
                 reserved == ReserveSlug(reg.slug_counts, base_slug)
                 slug == reserved.slug
             IN  [reg |-> [reg EXCEPT
                              !.slug_counts = reserved.slug_counts,
                              !.speakers = DictSet(reg.speakers, slug,
                                                   Speaker(slug, name, SpeakerExtensions(user))),
                              !.identity_to_id = DictSet(reg.identity_to_id, key, slug)],
                  id |-> slug]

(* _get_or_create: the exception it raises, NoError when it returns:
   _user_identity_key raises, or _display_name does for an identity not yet
   registered *)
GetOrCreateError(reg, user) ==
    IF UserIdentityKeyRaises(user) THEN "AttributeError"
    ELSE IF DisplayNameRaises(user) /\ UserIdentityKey(user) \notin DOMAIN reg.identity_to_id
    THEN "AttributeError"
    ELSE NoError

(* entry.get("users") or [], an empty list standing for what ingest passes over *)
UsersOrEmpty(entry) == IF entry.users.t = "list" THEN entry.users.v ELSE <<>>

RECURSIVE IngestUsers(_, _)
(* for user in users: if isinstance(user, dict): self._get_or_create(user) *)
IngestUsers(reg, users) ==
    IF users = <<>> THEN reg
    ELSE IF ~IsDict(users[1]) THEN IngestUsers(reg, Tail(users))
    ELSE IngestUsers(GetOrCreate(reg, users[1]).reg, Tail(users))

RECURSIVE IngestUsersError(_, _)
(* the same loop: the first exception of a _get_or_create *)
IngestUsersError(reg, users) ==
    IF users = <<>> THEN NoError
    ELSE IF ~IsDict(users[1]) THEN IngestUsersError(reg, Tail(users))
    ELSE IF GetOrCreateError(reg, users[1]) # NoError THEN GetOrCreateError(reg, users[1])
    ELSE IngestUsersError(GetOrCreate(reg, users[1]).reg, Tail(users))

RECURSIVE Ingest(_, _)
(* ingest *)
Ingest(reg, entries) ==
    IF entries = <<>> THEN reg
    ELSE Ingest(IngestUsers(reg, UsersOrEmpty(entries[1])), Tail(entries))

RECURSIVE IngestError(_, _)
(* ingest: the exception it raises, NoError when it returns.  entry.get on an
   entry that is no dict is an AttributeError. *)
IngestError(reg, entries) ==
    IF entries = <<>> THEN NoError
    ELSE IF ~IsDict(entries[1]) THEN "AttributeError"
    ELSE IF IngestUsersError(reg, UsersOrEmpty(entries[1])) # NoError
         THEN IngestUsersError(reg, UsersOrEmpty(entries[1]))
    ELSE IngestError(IngestUsers(reg, UsersOrEmpty(entries[1])), Tail(entries))

(* What len(users) counts: the elements of a list, the characters of a text,
   the keys of an object; nothing for a falsy value *)
Sized(usersField) ==
    IF usersField.t \in {"list", "string", "object"} THEN usersField.v ELSE <<>>

(* speaker_id_for_users: the registry afterwards and the id, NoSpeakerId for None *)
SpeakerIdForUsers(reg, usersField) ==
    LET users == Sized(usersField)
    IN  IF users = <<>> THEN [reg |-> reg, id |-> NoSpeakerId]
        ELSE IF Len(users) > 1 /\ reg.mode = "multiple" THEN [reg |-> reg, id |-> MultipleId]
        ELSE IF usersField.t # "list" \/ ~IsDict(users[1]) THEN [reg |-> reg, id |-> NoSpeakerId]
        ELSE GetOrCreate(reg, users[1])

(* speaker_id_for_users: the exception it raises, NoError when it returns.
   len() of a number is a TypeError, users[0] of an object a KeyError. *)
SpeakerIdError(reg, usersField) ==
    IF usersField.t = "number" THEN "TypeError"
    ELSE IF Sized(usersField) = <<>> THEN NoError
    ELSE IF Len(Sized(usersField)) > 1 /\ reg.mode = "multiple" THEN NoError
    ELSE IF usersField.t = "object" THEN "KeyError"
    ELSE IF usersField.t # "list" \/ ~IsDict(usersField.v[1]) THEN NoError
    ELSE GetOrCreateError(reg, usersField.v[1])

(* key=lambda sp: (sp.name.lower(), sp.id) *)
SpeakerKeyLess(a, b) ==
    LET an == LowerStr(a.name)
        bn == LowerStr(b.name)
    IN  \/ StrLess(an, bn)
        \/ an = bn /\ StrLess(a.id, b.id)

RECURSIVE InsertSpeaker(_, _)
InsertSpeaker(sorted, sp) ==
    IF sorted = <<>> THEN <<sp>>
    ELSE IF SpeakerKeyLess(sp, sorted[1]) THEN <<sp>> \o sorted
    ELSE <<sorted[1]>> \o InsertSpeaker(Tail(sorted), sp)

RECURSIVE SortSpeakers(_)
(* selected.sort(...): the dict's keys are distinct, so are the sort keys *)
SortSpeakers(ids_and_speakers) ==
    IF ids_and_speakers = {} THEN <<>>
    ELSE LET sp == CHOOSE x \in ids_and_speakers : TRUE
         IN  InsertSpeaker(SortSpeakers(ids_and_speakers \ {sp}), sp)

(* speakers_for_ids *)
SpeakersForIds(reg, used_ids) ==
    SortSpeakers({reg.speakers[sid] : sid \in (DOMAIN reg.speakers) \cap used_ids})

----------------------------------------------------------------------------
(* stj_minimizer: _merge_and_filter_segments *)

Seg(start, end, speaker_id) == [start |-> start, end |-> end, speaker_id |-> speaker_id]

Reverse(a) == [i \in 1..Len(a) |-> a[Len(a) + 1 - i]]

RECURSIVE RunEnd(_, _, _)
(* CPython's count_run: the natural run at the head of the list ends at k *)
RunEnd(a, k, descending) ==
    IF k = Len(a) THEN k
    ELSE IF FLess(a[k + 1].start, a[k].start) = descending THEN RunEnd(a, k + 1, descending)
    ELSE k

RECURSIVE BinaryInsertPos(_, _, _, _)
(* CPython's binarysort: where the pivot goes into the sorted prefix, 0-based *)
BinaryInsertPos(prefix, pivot, l, r) ==
    IF l >= r THEN l
    ELSE LET mid == l + ((r - l) \div 2)
         IN  IF FLess(pivot.start, prefix[mid + 1].start)
             THEN BinaryInsertPos(prefix, pivot, l, mid)
             ELSE BinaryInsertPos(prefix, pivot, mid + 1, r)

RECURSIVE BinarySort(_, _)
BinarySort(prefix, rest) ==
    IF rest = <<>> THEN prefix
    ELSE LET pos == BinaryInsertPos(prefix, rest[1], 0, Len(prefix))
         IN  BinarySort(SubSeq(prefix, 1, pos) \o <<rest[1]>>
                            \o SubSeq(prefix, pos + 1, Len(prefix)),
                        Tail(rest))

(* segments.sort(key=lambda t: t[0]) as CPython sorts a list shorter than 64:
   the natural run at its head (reversed if strictly descending), then binary
   insertion of the rest, all with "<" on floats.  On keys without NaN this is
   a stable ascending sort; a NaN key compares False with everything. *)
SortByStart(segments) ==
    IF Len(segments) < 2 THEN segments
    ELSE LET descending == FLess(segments[2].start, segments[1].start)
             k == RunEnd(segments, 2, descending)
             run == SubSeq(segments, 1, k)
         IN  BinarySort(IF descending THEN Reverse(run) ELSE run,
                        SubSeq(segments, k + 1, Len(segments)))

RECURSIVE MergePassKeepDegenerate(_, _, _)
(* A plausible slip: the first loop without its test for zero/negative length *)
MergePassKeepDegenerate(segments, merged, merge_gap_sec) ==
    IF segments = <<>> THEN merged
    ELSE LET cur == segments[1]
             rest == Tail(segments)
         IN  IF merged = <<>> THEN MergePassKeepDegenerate(rest, <<cur>>, merge_gap_sec)
             ELSE LET prev == merged[Len(merged)]
                  IN  IF /\ prev.speaker_id = cur.speaker_id
                         /\ FLessEq(FSub(cur.start, prev.end), merge_gap_sec)
                      THEN MergePassKeepDegenerate(rest,
                                     [merged EXCEPT ![Len(merged)] =
                                         Seg(prev.start, PyMax(prev.end, cur.end), prev.speaker_id)],
                                     merge_gap_sec)
                      ELSE MergePassKeepDegenerate(rest, Append(merged, cur), merge_gap_sec)

RECURSIVE MergePassStrictGap(_, _, _)
(* A plausible slip: the first loop merging only gaps below merge_gap_sec *)
MergePassStrictGap(segments, merged, merge_gap_sec) ==
    IF segments = <<>> THEN merged
    ELSE LET cur == segments[1]
             rest == Tail(segments)
         IN  IF FLessEq(cur.end, cur.start) THEN MergePassStrictGap(rest, merged, merge_gap_sec)
             ELSE IF merged = <<>> THEN MergePassStrictGap(rest, <<cur>>, merge_gap_sec)
             ELSE LET prev == merged[Len(merged)]
                  IN  IF /\ prev.speaker_id = cur.speaker_id
                         /\ FLess(FSub(cur.start, prev.end), merge_gap_sec)
                      THEN MergePassStrictGap(rest,
                                     [merged EXCEPT ![Len(merged)] =
                                         Seg(prev.start, PyMax(prev.end, cur.end), prev.speaker_id)],
                                     merge_gap_sec)
                      ELSE MergePassStrictGap(rest, Append(merged, cur), merge_gap_sec)

RECURSIVE MergePass(_, _, _)
(* the first loop: drop zero/negative length, merge into the previous segment
   of the same speaker when the gap is at most merge_gap_sec *)
MergePass(segments, merged, merge_gap_sec) ==
    IF segments = <<>> THEN merged
    ELSE LET cur == segments[1]
             rest == Tail(segments)
         IN  IF FLessEq(cur.end, cur.start) THEN MergePass(rest, merged, merge_gap_sec)
             ELSE IF merged = <<>> THEN MergePass(rest, <<cur>>, merge_gap_sec)
             ELSE LET prev == merged[Len(merged)]
                  IN  IF /\ prev.speaker_id = cur.speaker_id
                         /\ FLessEq(FSub(cur.start, prev.end), merge_gap_sec)
                      THEN MergePass(rest,
                                     [merged EXCEPT ![Len(merged)] =
                                         Seg(prev.start, PyMax(prev.end, cur.end), prev.speaker_id)],
                                     merge_gap_sec)
                      ELSE MergePass(rest, Append(merged, cur), merge_gap_sec)

(* A plausible slip: the second loop without its length test *)
AnyLength(dur, min_segment_sec) == TRUE

(* dur + 1e-9 >= min_segment_sec.  The 1e-9 absorbs the error of the float
   subtraction; on whole ticks of 1e-4 s it cannot change the outcome. *)
LongEnough(dur, min_segment_sec) == FLessEq(min_segment_sec, dur)

(* A plausible slip: the next merged segment is tried before the previous
   kept one *)
FilterStepNextFirst(merged, i, kept, min_segment_sec) ==
    LET cur == merged[i]
    IN  IF LongEnough(FSub(cur.end, cur.start), min_segment_sec)
        THEN [merged |-> merged, kept |-> Append(kept, cur)]
        ELSE IF i + 1 <= Len(merged) /\ merged[i + 1].speaker_id = cur.speaker_id
        THEN [merged |-> [merged EXCEPT ![i + 1] =
                             Seg(PyMin(cur.start, merged[i + 1].start),
                                 PyMax(cur.end, merged[i + 1].end), merged[i + 1].speaker_id)],
              kept |-> kept]
        ELSE IF kept # <<>> /\ kept[Len(kept)].speaker_id = cur.speaker_id
        THEN [merged |-> merged,
              kept |-> [kept EXCEPT ![Len(kept)] =
                           Seg(kept[Len(kept)].start, PyMax(kept[Len(kept)].end, cur.end),
                               kept[Len(kept)].speaker_id)]]
        ELSE [merged |-> merged, kept |-> kept]

(* A plausible slip: a short segment fused into the previous kept segment
   whoever its speaker is *)
FilterStepAnySpeaker(merged, i, kept, min_segment_sec) ==
    LET cur == merged[i]
    IN  IF LongEnough(FSub(cur.end, cur.start), min_segment_sec)
        THEN [merged |-> merged, kept |-> Append(kept, cur)]
        ELSE IF kept # <<>>
        THEN [merged |-> merged,
              kept |-> [kept EXCEPT ![Len(kept)] =
                           Seg(kept[Len(kept)].start, PyMax(kept[Len(kept)].end, cur.end),
                               kept[Len(kept)].speaker_id)]]
        ELSE IF i + 1 <= Len(merged) /\ merged[i + 1].speaker_id = cur.speaker_id
        THEN [merged |-> [merged EXCEPT ![i + 1] =
                             Seg(PyMin(cur.start, merged[i + 1].start),
                                 PyMax(cur.end, merged[i + 1].end), merged[i + 1].speaker_id)],
              kept |-> kept]
        ELSE [merged |-> merged, kept |-> kept]

(* lines 206-223, one iteration of the second loop on merged[i]: keep, fuse
   with the previous kept segment, fuse with the next merged segment, or drop *)
FilterStep(merged, i, kept, min_segment_sec) ==
    LET cur == merged[i]
    IN  IF LongEnough(FSub(cur.end, cur.start), min_segment_sec)
        THEN [merged |-> merged, kept |-> Append(kept, cur)]
        ELSE IF kept # <<>> /\ kept[Len(kept)].speaker_id = cur.speaker_id
        THEN [merged |-> merged,
              kept |-> [kept EXCEPT ![Len(kept)] =
                           Seg(kept[Len(kept)].start, PyMax(kept[Len(kept)].end, cur.end),
                               kept[Len(kept)].speaker_id)]]
        ELSE IF i + 1 <= Len(merged) /\ merged[i + 1].speaker_id = cur.speaker_id
        THEN [merged |-> [merged EXCEPT ![i + 1] =
                             Seg(PyMin(cur.start, merged[i + 1].start),
                                 PyMax(cur.end, merged[i + 1].end), merged[i + 1].speaker_id)],
              kept |-> kept]
        ELSE [merged |-> merged, kept |-> kept]

RECURSIVE FilterPass(_, _, _, _)
(* the second loop, from merged[i] on *)
FilterPass(merged, i, kept, min_segment_sec) ==
    IF i > Len(merged) THEN kept
    ELSE FilterPass(FilterStep(merged, i, kept, min_segment_sec).merged, i + 1,
                    FilterStep(merged, i, kept, min_segment_sec).kept, min_segment_sec)

(* A plausible slip: the short pieces are dropped before the merge *)
MergeAndFilterSegmentsDropFirst(segments, min_segment_sec, merge_gap_sec) ==
    MergePass(SelectSeq(SortByStart(segments),
                        LAMBDA g : LongEnough(FSub(g.end, g.start), min_segment_sec)),
              <<>>, merge_gap_sec)

(* _merge_and_filter_segments *)
MergeAndFilterSegments(segments, min_segment_sec, merge_gap_sec) ==
    IF segments = <<>> THEN <<>>
    ELSE FilterPass(MergePass(SortByStart(segments), <<>>, merge_gap_sec),
                    1, <<>>, min_segment_sec)

----------------------------------------------------------------------------
(* stj_minimizer: timeline_to_minimal_stj *)

NoDuration == [given |-> FALSE, val |-> NaN]     \* duration_sec=None
Duration(x) == [given |-> TRUE, val |-> x]

IsNonEmptyList(field) == field.t = "list" /\ field.v # <<>>

(* A plausible slip: "timeline" looked at first *)
SelectEntriesTimelineFirst(timeline) ==
    IF IsNonEmptyList(timeline.timeline)
    THEN [entries |-> timeline.timeline.v, source_name |-> "timeline"]
    ELSE IF IsNonEmptyList(timeline.timeline_refine)
    THEN [entries |-> timeline.timeline_refine.v, source_name |-> "timeline_refine"]
    ELSE [entries |-> <<>>, source_name |-> "None"]

(* lines 304-314: timeline_refine if it is a non-empty list, else timeline *)
SelectEntries(timeline) ==
    IF IsNonEmptyList(timeline.timeline_refine)
    THEN [entries |-> timeline.timeline_refine.v, source_name |-> "timeline_refine"]
    ELSE IF IsNonEmptyList(timeline.timeline)
    THEN [entries |-> timeline.timeline.v, source_name |-> "timeline"]
    ELSE [entries |-> <<>>, source_name |-> "None"]

RECURSIVE BuildRawSegments(_, _, _, _, _, _)
(* the loop over enumerate(entries): raw_segments, used_speakers and the
   registry as the loop leaves them *)
BuildRawSegments(entries, i, reg, duration_sec, include_unknown, acc) ==
    IF i > Len(entries) THEN [acc EXCEPT !.registry = reg]
    ELSE LET e == entries[i]
             s == ParseHhmmssMs(e.ts)
             next == IF i + 1 <= Len(entries)
                     THEN ParseHhmmssMs(entries[i + 1].ts)
                     ELSE [ok |-> FALSE, val |-> NaN]
             end == IF i + 1 <= Len(entries)
                    THEN (IF next.ok THEN next.val ELSE s.val)
                    ELSE (IF duration_sec.given THEN duration_sec.val ELSE s.val)
             found == SpeakerIdForUsers(reg, e.users)
             sid == IF found.id = NoSpeakerId THEN UnknownId ELSE found.id
         IN  IF ~s.ok
             THEN BuildRawSegments(entries, i + 1, reg, duration_sec, include_unknown, acc)
             ELSE IF found.id = NoSpeakerId /\ ~include_unknown
             THEN BuildRawSegments(entries, i + 1, found.reg, duration_sec, include_unknown, acc)
             ELSE BuildRawSegments(entries, i + 1, found.reg, duration_sec, include_unknown,
                                   [raw_segments |-> Append(acc.raw_segments, Seg(s.val, end, sid)),
                                    used_speakers |-> acc.used_speakers \cup {sid},
                                    registry |-> found.reg])

(* A plausible slip: the check after rounding left out *)
RoundSegmentsKeepAll(segments) ==
    [i \in 1..Len(segments) |->
        Seg(Round3(segments[i].start), Round3(segments[i].end), segments[i].speaker_id)]

RECURSIVE RoundSegments(_)
(* the rounding loop: round both ends, drop what collapsed *)
RoundSegments(segments) ==
    IF segments = <<>> THEN <<>>
    ELSE LET s == Round3(segments[1].start)
             e == Round3(segments[1].end)
         IN  IF FLessEq(e, s) THEN RoundSegments(Tail(segments))
             ELSE <<Seg(s, e, segments[1].speaker_id)>> \o RoundSegments(Tail(segments))

(* lines 361-398: the speakers of the used ids and the document.  Of the
   document: the transcript and the source block of the metadata; creation
   time, version and the caller's context only decorate the metadata.
   locals: the function's own variables when it returns. *)
(* A plausible slip: every registered speaker listed, used or not *)
BuildDocumentAllRegistered(selected, raw, segments, duration_sec) ==
    [error |-> NoError,
     stj |-> [speakers |-> SpeakersForIds(raw.registry, DOMAIN raw.registry.speakers),
              segments |-> RoundSegments(segments),
              has_timeline |-> selected.entries # <<>>,
              timeline_source |-> selected.source_name,
              duration |-> duration_sec],
     locals |-> [entries |-> selected.entries,
                 identity_to_id |-> raw.registry.identity_to_id,
                 registered |-> raw.registry.speakers,
                 raw_segments |-> raw.raw_segments,
                 used_speakers |-> raw.used_speakers,
                 segments |-> segments]]

BuildDocument(selected, raw, segments, duration_sec) ==
    [error |-> NoError,
     stj |-> [speakers |-> SpeakersForIds(raw.registry, raw.used_speakers),
              segments |-> RoundSegments(segments),
              has_timeline |-> selected.entries # <<>>,
              timeline_source |-> selected.source_name,
              duration |-> duration_sec],
     locals |-> [entries |-> selected.entries,
                 identity_to_id |-> raw.registry.identity_to_id,
                 registered |-> raw.registry.speakers,
                 raw_segments |-> raw.raw_segments,
                 used_speakers |-> raw.used_speakers,
                 segments |-> segments]]

(* lines 348-350: merge and filter the raw segments *)
ConvertRaw(selected, raw, duration_sec, min_segment_sec, merge_gap_sec) ==
    BuildDocument(selected, raw,
                  MergeAndFilterSegments(raw.raw_segments, min_segment_sec, merge_gap_sec),
                  duration_sec)

(* A plausible slip: the events without a speaker are removed before the loop,
   so their timestamps end nothing *)
ConvertIngestedResolvedOnly(selected, ingested, duration_sec, min_segment_sec, merge_gap_sec, include_unknown) ==
    ConvertRaw(selected,
               BuildRawSegments(SelectSeq(selected.entries,
                                          LAMBDA e : include_unknown \/ UsersOrEmpty(e) # <<>>),
                                1, ingested, duration_sec, include_unknown,
                                [raw_segments |-> <<>>, used_speakers |-> {},
                                 registry |-> ingested]),
               duration_sec, min_segment_sec, merge_gap_sec)

(* The exception that leaves the loop over the entries: the first one of a
   speaker_id_for_users, which is called for the entries whose ts parses.  The
   loop resolves only users that ingest registered, so the registry stays as
   ingest left it. *)
RawLoopError(entries, reg) ==
    LET raising == {i \in 1..Len(entries) :
                       /\ ParseHhmmssMs(entries[i].ts).ok
                       /\ SpeakerIdError(reg, entries[i].users) # NoError}
    IN  IF raising = {} THEN NoError
        ELSE SpeakerIdError(reg, entries[MinOf(raising)].users)

(* lines 321-346: the raw segments, from the registry that ingested the entries *)
ConvertIngested(selected, ingested, duration_sec, min_segment_sec, merge_gap_sec, include_unknown) ==
    IF RawLoopError(selected.entries, ingested) # NoError
    THEN [error |-> RawLoopError(selected.entries, ingested)]
    ELSE ConvertRaw(selected,
                    BuildRawSegments(selected.entries, 1, ingested, duration_sec, include_unknown,
                                     [raw_segments |-> <<>>, used_speakers |-> {},
                                      registry |-> ingested]),
                    duration_sec, min_segment_sec, merge_gap_sec)

(* lines 319-320: a new registry ingests the selected entries *)
ConvertEntries(selected, duration_sec, mode, min_segment_sec, merge_gap_sec, include_unknown) ==
    IF IngestError(NewRegistry(include_unknown, mode), selected.entries) # NoError
    THEN [error |-> IngestError(NewRegistry(include_unknown, mode), selected.entries)]
    ELSE ConvertIngested(selected, Ingest(NewRegistry(include_unknown, mode), selected.entries),
                         duration_sec, min_segment_sec, merge_gap_sec, include_unknown)

(* timeline_to_minimal_stj *)
timeline_to_minimal_stj(timeline, duration_sec, mode, min_segment_sec, merge_gap_sec, include_unknown) ==
    ConvertEntries(SelectEntries(timeline), duration_sec, mode, min_segment_sec,
                   merge_gap_sec, include_unknown)

----------------------------------------------------------------------------
(* Arguments of the converter calls *)

List(v) == [t |-> "list", v |-> v]
NotList == [t |-> "notlist", v |-> <<>>]       \* a JSON value that is no array

User(username, zoom_userid) ==
    [username |-> Str(username), zoom_userid |-> Str(zoom_userid), user_id |-> Missing]

UserA == User(<<"A">>, <<"z", "1">>)
UserB == User(<<"B">>, <<"z", "2">>)
Alex1 == User(<<"a">>, <<"z", "3">>)
Alex2 == User(<<"a">>, <<"z", "4">>)
AlexSpace2 == User(<<"a", " ", "2">>, <<"z", "5">>)
NamedUnknown == User(<<"u", "n", "k", "n", "o", "w", "n">>, <<"z", "6">>)
NamedMultiple == User(<<"M", "u", "l", "t", "i", "p", "l", "e">>, <<"z", "7">>)

Call(timeline, duration_sec, mode, min_segment_sec, merge_gap_sec, include_unknown) ==
    [timeline |-> timeline, duration_sec |-> duration_sec, mode |-> mode,
     min_segment_sec |-> min_segment_sec, merge_gap_sec |-> merge_gap_sec,
     include_unknown |-> include_unknown]

OnlyTimeline(entries) == [timeline |-> List(entries), timeline_refine |-> Missing]

(* Timing: two speakers and silence (labelled "unknown"), timestamps in any
   order, one of them 0.4 ms after another *)
TimingEvents ==
    [ts : {Hms(0, 0, 0), Hms(0, 0, TicksPerSec), Hms(0, 0, TicksPerSec + 4),
           Hms(0, 0, 2 * TicksPerSec)},
     users : {List(<<>>), List(<<UserA>>), List(<<UserB>>)}]
TimingCalls ==
    {Call(OnlyTimeline(es), d, "first", min, gap, TRUE) :
        es \in SeqsUpTo(TimingEvents, MaxEvents),
        d \in {NoDuration, Duration(Sec(3))},
        min \in {Num(0), Sec(1)},
        gap \in {Num(0), Sec(1)}}

(* Timestamps that float() reads as NaN, among ordinary ones *)
NanEvents ==
    [ts : {Hms(0, 0, 0), Hms(0, 0, TicksPerSec), Hms(0, 0, 2 * TicksPerSec), TsNaN},
     users : {List(<<UserA>>), List(<<UserB>>)}]
NanCalls ==
    {Call(OnlyTimeline(es), Duration(Sec(1)), "first", Sec(1), Sec(1), FALSE) :
        es \in SeqsUpTo(NanEvents, MaxNanEvents)}

(* Names: participants whose names collide with each other and with the
   synthetic speakers; the i-th event is at second i - 1 *)
NamedUsers ==
    {List(<<>>), List(<<Alex1>>), List(<<Alex2>>), List(<<AlexSpace2>>),
     List(<<NamedUnknown>>), List(<<NamedMultiple>>),
     List(<<Alex1, Alex2>>), List(<<NamedMultiple, Alex1>>)}
NamedTimelines ==
    {[i \in 1..Len(us) |-> [ts |-> Hms(0, 0, (i - 1) * TicksPerSec), users |-> us[i]]] :
        us \in SeqsUpTo(NamedUsers, MaxEvents)}
NamedCalls ==
    {Call(OnlyTimeline(es), d, mode, Sec(1), Sec(1), unk) :
        es \in NamedTimelines,
        d \in {NoDuration, Duration(Sec(5))},
        mode \in {"first", "multiple"},
        unk \in BOOLEAN}

(* Slugs: three participants of one name, and names as long as the id budget:
   64 letters, 65 letters (cut to the same 64), and 64 characters whose cut
   for a suffix ends in a hyphen.  The i-th event is at second i - 1. *)
Repeat(c, n) == [i \in 1..n |-> c]
Alex3 == User(<<"a">>, <<"z", "8">>)
Long1 == User(Repeat("b", MaxSpeakerIdLen), <<"z", "9">>)
Long2 == User(Repeat("b", MaxSpeakerIdLen + 1), <<"z", "1", "0">>)
Hyphen1 == User(Repeat("c", MaxSpeakerIdLen - 3) \o <<" ", "c", "c">>, <<"z", "1", "1">>)
Hyphen2 == User(Repeat("c", MaxSpeakerIdLen - 3) \o <<" ", "c", "c">>, <<"z", "1", "2">>)
SlugUsers == {Alex1, Alex2, Alex3, Long1, Long2, Hyphen1, Hyphen2}
SlugTimelines ==
    {[i \in 1..Len(us) |-> [ts |-> Hms(0, 0, (i - 1) * TicksPerSec), users |-> List(<<us[i]>>)]] :
        us \in SeqsUpTo(SlugUsers, MaxSlugEvents)}
SlugCalls ==
    {Call(OnlyTimeline(es), Duration(Sec(5)), "first", Sec(1), Sec(1), FALSE) :
        es \in SlugTimelines}

(* Identities: users told apart or not by zoom_userid (also padded with
   blanks), by user_id (a text, a number, the text of a zoom_userid), by
   username (also in another case), or by nothing at all; a name that
   slugifies to the suffixed id of another.  The i-th event is at second i - 1. *)
IdUser(username, zoom_userid, user_id) ==
    [username |-> username, zoom_userid |-> zoom_userid, user_id |-> user_id]
IdentityUsers ==
    {IdUser(Str(<<"A">>), Str(<<"z", "1">>), Missing),
     IdUser(Str(<<"B">>), Str(<<"z", "1">>), Missing),
     IdUser(Str(<<"A">>), Str(<<" ", "z", "1", " ">>), Missing),
     IdUser(Str(<<"A">>), Str(<<"z", "2">>), Missing),
     IdUser(Str(<<"A">>), Str(<<"z", "2">>), Str(<<"u", "1">>)),
     IdUser(Str(<<"A">>), Missing, Str(<<"u", "1">>)),
     IdUser(Str(<<"A">>), Str(<<" ">>), Str(<<"u", "2">>)),
     IdUser(Str(<<"B">>), Null, Str(<<"u", "1">>)),
     IdUser(Str(<<"A">>), Missing, Str(<<"z", "1">>)),
     IdUser(Str(<<"A">>), Missing, Number),
     IdUser(Str(<<"A">>), Missing, Missing),
     IdUser(Str(<<"a">>), Missing, Str(<<" ">>)),
     IdUser(Str(<<"A", " ", "2">>), Str(<<"z", "3">>), Missing),
     IdUser(Missing, Missing, Missing),
     IdUser(Str(<<>>), Missing, Missing)}
IdentityTimelines ==
    {[i \in 1..Len(us) |-> [ts |-> Hms(0, 0, (i - 1) * TicksPerSec), users |-> List(<<us[i]>>)]] :
        us \in SeqsUpTo(IdentityUsers, MaxIdentityEvents)}
IdentityCalls ==
    {Call(OnlyTimeline(es), Duration(Sec(5)), "first", Sec(1), Sec(1), FALSE) :
        es \in IdentityTimelines}

(* Unresolved speakers: events whose users are missing, null or empty, among
   events of one participant, timestamps in any order *)
UnknownEvents ==
    [ts : {Hms(0, 0, 0), Hms(0, 0, TicksPerSec), Hms(0, 0, 2 * TicksPerSec)},
     users : {Missing, Null, List(<<>>), List(<<UserA>>)}]
UnknownCalls ==
    {Call(OnlyTimeline(es), d, "first", Sec(1), Sec(1), unk) :
        es \in SeqsUpTo(UnknownEvents, MaxUnknownEvents),
        d \in {NoDuration, Duration(Sec(3))},
        unk \in BOOLEAN}

(* Rows: entries that are no objects, users values that are no lists, users
   that are no objects or carry no identity, names and ids that are numbers.
   NumberName has the zoom_userid of UserA. *)
EmptyUser == [username |-> Missing, zoom_userid |-> Missing, user_id |-> Missing]
NumberZid == [username |-> Str(<<"A">>), zoom_userid |-> Number, user_id |-> Missing]
NumberName == [username |-> Number, zoom_userid |-> Str(<<"z", "1">>), user_id |-> Missing]
RowUsers ==
    {Missing, List(<<>>), Number, Text(1), Text(2), Object(1), Object(2),
     List(<<NotADict>>), List(<<UserA, NotADict>>), List(<<NotADict, UserA>>),
     List(<<EmptyUser>>), List(<<NumberZid>>), List(<<NumberName>>), List(<<UserA>>)}
RowEntries == {NotADict} \cup [ts : {Hms(0, 0, 0), TsBad}, users : RowUsers]
RowCalls ==
    {Call(OnlyTimeline(es), Duration(Sec(5)), mode, Sec(1), Sec(1), TRUE) :
        es \in SeqsUpTo(RowEntries, MaxRowEvents) \ {<<>>},
        mode \in {"first", "multiple"}}

(* Sources: timeline and timeline_refine, each missing, no list, empty or with
   events, some of them with a malformed timestamp.  UserB speaks only in
   timeline, UserA only in timeline_refine. *)
SourceTs == {Hms(0, 0, 0), Hms(0, 1, 0), TsBad}
SourceValues(user) ==
    {Missing, NotList}
        \cup {List(es) : es \in SeqsUpTo([ts : SourceTs, users : {List(<<user>>)}],
                                         MaxSourceEvents)}
SourceCalls ==
    {Call([timeline |-> t, timeline_refine |-> r],
          Duration(Sec(120)), "first", Sec(1), Sec(1), FALSE) :
        t \in SourceValues(UserB), r \in SourceValues(UserA)}

(* Documents without events, among documents with one event: each key absent,
   null, no array, an empty array, or an array of one event (with a
   well-formed or a malformed ts) *)
ZeroValues(user) ==
    {Missing, Null, NotList, List(<<>>),
     List(<<[ts |-> Hms(0, 0, 0), users |-> List(<<user>>)]>>),
     List(<<[ts |-> TsBad, users |-> List(<<user>>)]>>)}
ZeroCalls ==
    {Call([timeline |-> t, timeline_refine |-> r], d, mode, Sec(1), Sec(1), unk) :
        t \in ZeroValues(UserB), r \in ZeroValues(UserA),
        d \in {NoDuration, Duration(Sec(120))},
        mode \in {"first", "multiple"}, unk \in BOOLEAN}

(* Runs: events of one or two participants 0.6 s, 0.4 ms and 1.4 s apart, a
   recording that ends after or before the last of them, a merge gap that is
   negative, zero or positive *)
RunEvents ==
    [ts : {Hms(0, 0, 0), Hms(0, 0, 6 * (TicksPerSec \div 10)),
           Hms(0, 0, 6 * (TicksPerSec \div 10) + 4), Hms(0, 0, 2 * TicksPerSec)},
     users : {List(<<UserA>>), List(<<UserB>>)}]
RunCalls ==
    {Call(OnlyTimeline(es), d, "first", min, gap, FALSE) :
        es \in SeqsUpTo(RunEvents, MaxRunEvents),
        d \in {NoDuration, Duration(Sec(1)), Duration(Sec(3))},
        min \in {Num(0), Sec(1)},
        gap \in {Num(0 - TicksPerSec), Num(0), Num(15 * (TicksPerSec \div 10))}}

(* One call of timeline_to_minimal_stj with arguments out of calls *)
Convert(calls) ==
    /\ op = "idle"
    /\ \E c \in calls :
          \E out \in {timeline_to_minimal_stj(c.timeline, c.duration_sec, c.mode,
                                              c.min_segment_sec, c.merge_gap_sec,
                                              c.include_unknown)} :
              /\ op' = "timeline_to_minimal_stj"
              /\ args' = c
              /\ result' = IF out.error # NoError THEN Raise(out.error)
                           ELSE [kind |-> "stj", val |-> out.stj]
              /\ locals' = IF out.error # NoError THEN <<>> ELSE out.locals

(* Any of the calls *)
TimelineToMinimalStj ==
    \/ Convert(TimingCalls)
    \/ Convert(NanCalls)
    \/ Convert(NamedCalls)
    \/ Convert(SourceCalls)

----------------------------------------------------------------------------
(* downloader: Downloader.download_transcripts_and_chat *)

(* str.upper() of one character *)
Upper(c) == IF CharCode(c) \in 97..122 THEN Ascii[CharCode(c) - 32 - 31] ELSE c

UpperStr(s) == [i \in 1..Len(s) |-> Upper(s[i])]

(* (file_info.get(key) or "").upper(); a number has no upper() *)
UpperOrEmpty(field) == IF field.t = "str" THEN UpperStr(field.v) ELSE <<>>
UpperRaises(field) == field.t = "number"

(* sub in s *)
Contains(s, sub) ==
    \E i \in 0..(Len(s) - Len(sub)) : SubSeq(s, i + 1, i + Len(sub)) = sub

(* not download_url *)
Falsy(field) == field.t # "str" \/ field.v = <<>>

(* The process environment: DLZOOM_SPEAKERS unset, or set to a text *)
Unset == [set |-> FALSE, val |-> <<>>]
Setenv(v) == [set |-> TRUE, val |-> v]

(* os.getenv(name, default) *)
Getenv(env, default) == IF env.set THEN env.val ELSE default

(* A plausible slip: the environment consulted whatever skip_speakers says *)
DoSkipSpeakersEnvFirst(skip_speakers, env) ==
    \/ LowerStr(Strip(Getenv(env, <<"1">>)))
           \in {<<"0">>, <<"f", "a", "l", "s", "e">>, <<"n", "o">>, <<"o", "f", "f">>}
    \/ skip_speakers # None /\ skip_speakers.val

(* lines 706-714: do_skip_speakers.  skip_speakers is None, True or False;
   strip() is modelled on blanks *)
DoSkipSpeakers(skip_speakers, env) ==
    IF skip_speakers = None
    THEN LowerStr(Strip(Getenv(env, <<"1">>)))
             \in {<<"0">>, <<"f", "a", "l", "s", "e">>, <<"n", "o">>, <<"o", "f", "f">>}
    ELSE skip_speakers.val

(* What the call has done so far: the four lists of the result (a path is
   written as the index of its recording file), the files download_file and
   write_minimal_stj_from_file were called for, and the exception that left
   the loop *)
NoFiles ==
    [vtt |-> <<>>, txt |-> <<>>, timeline |-> <<>>, speakers |-> <<>>,
     downloads |-> <<>>, writes |-> <<>>, error |-> NoError]

(* try: path = self.download_file(..); result[key].append(path)
   except DownloadError: log.  f.download is what download_file does for
   this file *)
DownloadInto(f, i, key, acc) ==
    IF f.download = "ok"
    THEN [acc EXCEPT !.downloads = Append(@, i), ![key] = Append(@, i)]
    ELSE [acc EXCEPT !.downloads = Append(@, i)]

(* A plausible slip: the writer's exception is not caught *)
GenerateSpeakersUncaught(f, i, call, acc) ==
    IF DoSkipSpeakers(call.skip_speakers, call.env) THEN acc
    ELSE IF f.write = "ok"
    THEN [acc EXCEPT !.writes = Append(@, i), !.speakers = Append(@, i)]
    ELSE [acc EXCEPT !.writes = Append(@, i), !.error = f.write]

(* lines 704-749: the inner try.  f.write is what write_minimal_stj_from_file
   does for this file: "ok", or the exception it raises *)
GenerateSpeakers(f, i, call, acc) ==
    IF DoSkipSpeakers(call.skip_speakers, call.env) THEN acc
    ELSE IF f.write = "ok"
    THEN [acc EXCEPT !.writes = Append(@, i), !.speakers = Append(@, i)]
    ELSE [acc EXCEPT !.writes = Append(@, i)]

(* lines 683-751: the TIMELINE branch *)
ProcessTimeline(f, i, call, acc) ==
    IF call.skip_timeline \/ Falsy(f.download_url) THEN acc
    ELSE IF f.download = "ok"
    THEN GenerateSpeakers(f, i, call, DownloadInto(f, i, "timeline", acc))
    ELSE DownloadInto(f, i, "timeline", acc)

(* lines 631-751: one turn of the loop over recording_files *)
ProcessFile(f, i, call, acc) ==
    IF UpperRaises(f.file_extension) THEN [acc EXCEPT !.error = "AttributeError"]
    ELSE IF UpperOrEmpty(f.file_extension) = <<"V", "T", "T">>
    THEN (IF call.skip_transcript \/ Falsy(f.download_url) THEN acc
          ELSE DownloadInto(f, i, "vtt", acc))
    ELSE IF UpperOrEmpty(f.file_extension) = <<"T", "X", "T">>
    THEN (IF call.skip_chat \/ Falsy(f.download_url) THEN acc
          ELSE DownloadInto(f, i, "txt", acc))
    ELSE IF Contains(UpperOrEmpty(f.file_type) \o <<" ">> \o UpperOrEmpty(f.recording_type),
                     <<"T", "I", "M", "E", "L", "I", "N", "E">>)
    THEN ProcessTimeline(f, i, call, acc)
    ELSE acc

RECURSIVE ProcessFiles(_, _, _)
(* for file_info in recording_files, until an exception leaves the loop *)
ProcessFiles(call, i, acc) ==
    IF i > Len(call.recording_files) \/ acc.error # NoError THEN acc
    ELSE ProcessFiles(call, i + 1, ProcessFile(call.recording_files[i], i, call, acc))

(* Downloader.download_transcripts_and_chat *)
download_transcripts_and_chat(call) == ProcessFiles(call, 1, NoFiles)

(* Recording files: what the API lists for the file, and what download_file
   and write_minimal_stj_from_file do when called for it *)
RecordingFile(ext, type, rtype, url, download, write) ==
    [file_extension |-> ext, file_type |-> type, recording_type |-> rtype,
     download_url |-> url, download |-> download, write |-> write]

Url == Str(<<"u">>)
TimelineByFileType ==
    [ext |-> Str(<<"J", "S", "O", "N">>), type |-> Str(<<"T", "I", "M", "E", "L", "I", "N", "E">>),
     rtype |-> Missing]
TimelineByRecordingType ==
    [ext |-> Str(<<"j", "s", "o", "n">>), type |-> Missing,
     rtype |-> Str(<<"t", "i", "m", "e", "l", "i", "n", "e">>)]
TimelineFiles ==
    UNION {{RecordingFile(k.ext, k.type, k.rtype, Missing, "ok", "ok"),
            RecordingFile(k.ext, k.type, k.rtype, Url, "DownloadError", "ok"),
            RecordingFile(k.ext, k.type, k.rtype, Url, "ok", "ok"),
            RecordingFile(k.ext, k.type, k.rtype, Url, "ok", "RuntimeError")} :
           k \in {TimelineByFileType, TimelineByRecordingType}}
OtherFiles ==
    {RecordingFile(Str(<<"V", "T", "T">>), Str(<<"T", "I", "M", "E", "L", "I", "N", "E">>),
                   Missing, Url, "ok", "ok"),
     RecordingFile(Str(<<"t", "x", "t">>), Str(<<"C", "H", "A", "T">>),
                   Missing, Url, "DownloadError", "ok"),
     RecordingFile(Str(<<"M", "P", "4">>), Str(<<"M", "P", "4">>),
                   Str(<<"a", "u", "d", "i", "o", "_", "o", "n", "l", "y">>), Url, "ok", "ok"),
     RecordingFile(Number, Str(<<"T", "I", "M", "E", "L", "I", "N", "E">>),
                   Missing, Url, "ok", "ok")}

(* Values of DLZOOM_SPEAKERS *)
EnvValues ==
    {Unset, Setenv(<<"0">>), Setenv(<<"F", "A", "L", "S", "E", " ">>),
     Setenv(<<" ", "O", "f", "f">>), Setenv(<<"n", "o">>), Setenv(<<"1">>),
     Setenv(<<"n", "o", "p", "e">>)}

SkipFlags ==
    {[transcript |-> FALSE, chat |-> FALSE, timeline |-> FALSE],
     [transcript |-> TRUE, chat |-> TRUE, timeline |-> FALSE],
     [transcript |-> FALSE, chat |-> FALSE, timeline |-> TRUE]}

DownloaderCalls ==
    {[recording_files |-> files, skip_transcript |-> skip.transcript,
      skip_chat |-> skip.chat, skip_timeline |-> skip.timeline,
      skip_speakers |-> skip_speakers, env |-> env] :
        files \in SeqsUpTo(TimelineFiles \cup OtherFiles, MaxRecordingFiles),
        skip \in SkipFlags,
        skip_speakers \in {None, Bool(TRUE), Bool(FALSE)},
        env \in EnvValues}

(* One call of download_transcripts_and_chat *)
DownloadTranscriptsAndChat ==
    /\ op = "idle"
    /\ \E c \in DownloaderCalls :
          \E out \in {download_transcripts_and_chat(c)} :
              /\ op' = "download_transcripts_and_chat"
              /\ args' = c
              /\ result' = IF out.error # NoError THEN Raise(out.error)
                           ELSE [kind |-> "files",
                                 val |-> [vtt |-> out.vtt, txt |-> out.txt,
                                          timeline |-> out.timeline,
                                          speakers |-> out.speakers]]
              /\ locals' = out

----------------------------------------------------------------------------
(* stj_minimizer: conversions running in several threads *)

(* In the specification of concurrent conversions op, args and result map each
   thread to its position, its arguments and what its call returned; locals
   holds the registry objects (heap) and each thread's local variables
   (frame). *)
Threads == 1..MaxThreads

(* A plausible slip: one registry kept at module level and used by every call *)
RegistryOfModule(t) == 1

(* line 319: registry = _SpeakerRegistry(..) is a new object in every call; it
   is named after the thread whose call created it *)
RegistryOf(t) == t

(* Documents of participants whose names collide *)
ThreadEvent(sec, user) == [ts |-> Hms(0, 0, sec * TicksPerSec), users |-> List(<<user>>)]
ThreadTimelines ==
    {<<ThreadEvent(0, u)>> : u \in {Alex1, Alex2}}
        \cup {<<ThreadEvent(0, u), ThreadEvent(1, w)>> : u, w \in {Alex1, Alex2}}
ThreadCalls ==
    {Call(OnlyTimeline(es), Duration(Sec(3)), "first", Num(0), Num(0), FALSE) :
        es \in ThreadTimelines}

(* lines 304-320: thread t enters timeline_to_minimal_stj, selects the entries,
   creates its registry and lets it ingest them *)
Begin(t) ==
    /\ op[t] \in {"idle", "returned"}
    /\ \E c \in ThreadCalls :
          /\ args' = [args EXCEPT ![t] = c]
          /\ locals' =
                [heap |-> [locals.heap EXCEPT ![RegistryOf(t)] =
                              Ingest(NewRegistry(c.include_unknown, c.mode),
                                     SelectEntries(c.timeline).entries)],
                 frame |-> [locals.frame EXCEPT ![t] =
                              [timeline |-> c.timeline,
                               registry |-> RegistryOf(t),
                               selected |-> SelectEntries(c.timeline),
                               raw_segments |-> <<>>,
                               used_speakers |-> {}]]]
    /\ op' = [op EXCEPT ![t] = "ingested"]
    /\ result' = [result EXCEPT ![t] = None]

(* lines 325-346: the loop over the entries, on the registry of the frame *)
RawLoop(t) ==
    /\ op[t] = "ingested"
    /\ \E raw \in {BuildRawSegments(locals.frame[t].selected.entries, 1,
                                     locals.heap[locals.frame[t].registry],
                                     args[t].duration_sec, args[t].include_unknown,
                                     [raw_segments |-> <<>>, used_speakers |-> {},
                                      registry |-> locals.heap[locals.frame[t].registry]])} :
          locals' =
              [heap |-> [locals.heap EXCEPT ![locals.frame[t].registry] = raw.registry],
               frame |-> [locals.frame EXCEPT ![t] =
                            [@ EXCEPT !.raw_segments = raw.raw_segments,
                                      !.used_speakers = raw.used_speakers]]]
    /\ op' = [op EXCEPT ![t] = "looped"]
    /\ UNCHANGED <<args, result>>

(* lines 348-398: merge, filter, round, list the speakers, return *)
Return(t) ==
    /\ op[t] = "looped"
    /\ result' =
          [result EXCEPT ![t] =
              [kind |-> "stj",
               val |-> BuildDocument(
                           locals.frame[t].selected,
                           [raw_segments |-> locals.frame[t].raw_segments,
                            used_speakers |-> locals.frame[t].used_speakers,
                            registry |-> locals.heap[locals.frame[t].registry]],
                           MergeAndFilterSegments(locals.frame[t].raw_segments,
                                                  args[t].min_segment_sec,
                                                  args[t].merge_gap_sec),
                           args[t].duration_sec).stj]]
    /\ op' = [op EXCEPT ![t] = "returned"]
    /\ UNCHANGED <<args, locals>>

ThreadInit ==
    /\ op = [t \in Threads |-> "idle"]
    /\ args = [t \in Threads |-> <<>>]
    /\ result = [t \in Threads |-> None]
    /\ locals = [heap |-> [t \in Threads |-> <<>>], frame |-> [t \in Threads |-> <<>>]]

----------------------------------------------------------------------------
(* stj_minimizer: _merge_and_filter_segments, loop by loop *)

(* Raw segments: long ones (0-2 s, 4-6 s), short ones (2-2.5 s, 3-3.5 s), one of
   zero and one of negative length, of two speakers *)
Tenths(n) == Num(n * (TicksPerSec \div 10))
RawSpans == {<<0, 20>>, <<20, 25>>, <<30, 35>>, <<40, 60>>, <<20, 20>>, <<10, 0>>}
RawSegments == {Seg(Tenths(p[1]), Tenths(p[2]), sid) : p \in RawSpans, sid \in {<<"a">>, <<"b">>}}
MergeCalls ==
    [segments : SeqsUpTo(RawSegments, MaxRawSegments),
     min_segment_sec : {Sec(1)},
     merge_gap_sec : {Num(0), Sec(2)}]

(* lines 186-203: the call, the sort and the first loop; an empty list is
   returned at once *)
EnterMergeAndFilter ==
    /\ op = "idle"
    /\ \E c \in MergeCalls :
          /\ args' = c
          /\ IF c.segments = <<>>
             THEN /\ op' = "_merge_and_filter_segments"
                  /\ result' = [kind |-> "list", val |-> <<>>]
                  /\ locals' = <<>>
             ELSE /\ op' = "second loop"
                  /\ result' = None
                  /\ locals' = [merged |-> MergePass(SortByStart(c.segments), <<>>,
                                                    c.merge_gap_sec),
                                i |-> 1,
                                result |-> <<>>]

(* lines 206-223: one iteration of the second loop *)
SecondLoopStep ==
    /\ op = "second loop"
    /\ locals.i <= Len(locals.merged)
    /\ \E st \in {FilterStep(locals.merged, locals.i, locals.result, args.min_segment_sec)} :
          locals' = [merged |-> st.merged, i |-> locals.i + 1, result |-> st.kept]
    /\ UNCHANGED <<op, args, result>>

(* line 224: return result *)
ReturnMerged ==
    /\ op = "second loop"
    /\ locals.i > Len(locals.merged)
    /\ op' = "_merge_and_filter_segments"
    /\ result' = [kind |-> "list", val |-> locals.result]
    /\ UNCHANGED <<args, locals>>

----------------------------------------------------------------------------
(* handlers: _handle_download_mode *)

(* The handler is modelled as called by the CLI for one meeting, with a client
   that provides _get_access_token, nothing skipped and no templates.  op is
   the handler's position; locals are its variables instance (where it was
   taken from), selection_method, recording_files, audio_file (a position in
   recording_files) and downloaded_files (positions in recording_files). *)

(* str(f.get("file_extension", "")).upper() on the extensions of the files *)
ExtensionUpper(ext) ==
    CASE ext = "mp4" -> "MP4"
      [] ext = "m4a" -> "M4A"
      [] ext = "txt" -> "TXT"
      [] OTHER -> ext

RECURSIVE FirstMp4Upper(_, _)
(* next((f for f in recording_files
         if str(f.get("file_extension", "")).upper() == "MP4"), None), 0 for None *)
FirstMp4Upper(recording_files, i) ==
    IF i > Len(recording_files) THEN 0
    ELSE IF ExtensionUpper(recording_files[i].file_extension) = "MP4" THEN i
    ELSE FirstMp4Upper(recording_files, i + 1)

(* lines 1329-1336: the file the handler works with when select_best_audio
   returned None, 0 for none *)
FallbackVideo(recording_files) == FirstMp4Upper(recording_files, 1)

(* recording_id: None or a text; "if recording_id:" holds for a text that is
   not empty *)
NoRecordingId == [given |-> FALSE, v |-> ""]
RecordingId(uuid) == [given |-> TRUE, v |-> uuid]
Truthy(recording_id) == recording_id.given /\ recording_id.v # ""

FromMeetings(i) == [from |-> "meetings", idx |-> i]
FromResponse == [from |-> "response", idx |-> 0]
NoInstance == [from |-> "none", idx |-> 0]

(* A plausible slip: an unknown recording_id falls back to the most recent
   instance *)
SelectInstanceWithFallback(recordings, recording_id) ==
    LET meetings == IF recordings.meetings.t = "list" THEN recordings.meetings.v ELSE <<>>
        exact == filter_by_uuid(meetings, recording_id.v)
        recent == select_most_recent_instance(meetings)
    IN  IF meetings = <<>>
        THEN IF recordings.recording_files # <<>>
             THEN [error |-> NoError, instance |-> FromResponse,
                   selection_method |-> "only_instance"]
             ELSE [error |-> "RecordingNotFoundError", instance |-> NoInstance,
                   selection_method |-> "None"]
        ELSE IF Truthy(recording_id) /\ exact.kind = "item"
        THEN [error |-> NoError, instance |-> FromMeetings(exact.idx),
              selection_method |-> "user_specified"]
        ELSE IF Len(meetings) > 1 \/ Truthy(recording_id)
        THEN IF recent.kind = "raise"
             THEN [error |-> recent.exc, instance |-> NoInstance,
                   selection_method |-> "most_recent"]
             ELSE [error |-> NoError, instance |-> FromMeetings(recent.idx),
                   selection_method |-> "most_recent"]
        ELSE [error |-> NoError, instance |-> FromMeetings(1),
              selection_method |-> "only_instance"]

(* lines 1162-1203: the instance of the response the handler works with *)
SelectInstance(recordings, recording_id) ==
    LET meetings == IF recordings.meetings.t = "list" THEN recordings.meetings.v ELSE <<>>
        exact == filter_by_uuid(meetings, recording_id.v)
        recent == select_most_recent_instance(meetings)
    IN  IF meetings = <<>>
        THEN IF recordings.recording_files # <<>>
             THEN [error |-> NoError, instance |-> FromResponse,
                   selection_method |-> "only_instance"]
             ELSE [error |-> "RecordingNotFoundError", instance |-> NoInstance,
                   selection_method |-> "None"]
        ELSE IF Truthy(recording_id)
        THEN IF exact.kind = "item"
             THEN [error |-> NoError, instance |-> FromMeetings(exact.idx),
                   selection_method |-> "user_specified"]
             ELSE [error |-> "InvalidRecordingIDError", instance |-> NoInstance,
                   selection_method |-> "user_specified"]
        ELSE IF Len(meetings) > 1
        THEN IF recent.kind = "raise"
             THEN [error |-> recent.exc, instance |-> NoInstance,
                   selection_method |-> "most_recent"]
             ELSE [error |-> NoError, instance |-> FromMeetings(recent.idx),
                   selection_method |-> "most_recent"]
        ELSE [error |-> NoError, instance |-> FromMeetings(1),
              selection_method |-> "only_instance"]

(* line 1205: instance.get("recording_files", []) *)
FilesOfInstance(recordings, instance) ==
    IF instance.from = "meetings" THEN recordings.meetings.v[instance.idx].recording_files
    ELSE IF instance.from = "response" THEN recordings.recording_files
    ELSE <<>>

(* Recording files: a chat file, a video whose extension is in lower case, an
   audio file with and without a download_url, a video *)
HandlerFile(type, ext, url) == [file_type |-> type, file_extension |-> ext, download_url |-> url]
ChatFile == HandlerFile("CHAT", "TXT", TRUE)
LowerCaseVideo == HandlerFile("shared_screen_with_speaker_view", "mp4", TRUE)
AudioFile == HandlerFile("audio_only", "M4A", TRUE)
AudioWithoutUrl == HandlerFile("audio_only", "M4A", FALSE)
VideoFile == HandlerFile("shared_screen_with_speaker_view", "MP4", TRUE)
HandlerFileLists ==
    {<<>>, <<ChatFile>>, <<ChatFile, LowerCaseVideo>>, <<AudioFile, ChatFile>>,
     <<AudioWithoutUrl>>, <<VideoFile>>}
HandlerInstances ==
    [uuid : Uuids, start_time : {Str(<<"1">>), Str(<<"2">>)}, recording_files : HandlerFileLists]
HandlerResponses ==
    {[meetings |-> m, recording_files |-> fs] :
        m \in {Missing, List(<<>>)}, fs \in HandlerFileLists}
      \cup {[meetings |-> List(m), recording_files |-> <<>>] :
                m \in SeqsUpTo(HandlerInstances, MaxMeetings) \ {<<>>}}
HandlerCalls ==
    [recordings : HandlerResponses,
     recording_id : {NoRecordingId, RecordingId(""), RecordingId("u1"), RecordingId("u3")},
     dry_run : BOOLEAN,
     wait : {"no wait", "not ready"}]

(* lines 1134-1210: the availability check of --wait, the request for the
   recordings, the choice of the instance and its recording files *)
ChooseInstance ==
    /\ op = "idle"
    /\ \E c \in HandlerCalls :
          \E sel \in {SelectInstance(c.recordings, c.recording_id)} :
              /\ args' = c
              /\ IF c.wait = "not ready"
                 THEN /\ op' = "_handle_download_mode"
                      /\ result' = Raise("RecordingNotFoundError")
                      /\ locals' = [instance |-> NoInstance, selection_method |-> "None",
                                    recording_files |-> <<>>, audio_file |-> 0,
                                    downloaded_files |-> <<>>]
                 ELSE /\ locals' = [instance |-> sel.instance,
                                    selection_method |-> sel.selection_method,
                                    recording_files |-> FilesOfInstance(c.recordings, sel.instance),
                                    audio_file |-> 0,
                                    downloaded_files |-> <<>>]
                      /\ IF sel.error # NoError
                         THEN op' = "_handle_download_mode" /\ result' = Raise(sel.error)
                         ELSE IF FilesOfInstance(c.recordings, sel.instance) = <<>>
                         THEN /\ op' = "_handle_download_mode"
                              /\ result' = Raise("RecordingNotFoundError")
                         ELSE op' = "instance chosen" /\ result' = None

(* lines 1247-1275: a dry run reports and returns *)
DryRun ==
    /\ op = "instance chosen"
    /\ args.dry_run
    /\ op' = "_handle_download_mode"
    /\ result' = [kind |-> "returned"]
    /\ UNCHANGED <<args, locals>>

(* lines 1277-1344: the downloader is set up and the audio file chosen *)
ChooseAudio ==
    /\ op = "instance chosen"
    /\ ~args.dry_run
    /\ \E best \in {select_best_audio(locals.recording_files)} :
          IF best.kind = "item"
          THEN /\ op' = "audio chosen"
               /\ locals' = [locals EXCEPT !.audio_file = best.idx]
               /\ result' = None
          ELSE IF FallbackVideo(locals.recording_files) # 0
          THEN /\ op' = "audio chosen"
               /\ locals' = [locals EXCEPT !.audio_file = FallbackVideo(locals.recording_files)]
               /\ result' = None
          ELSE /\ op' = "_handle_download_mode"
               /\ result' = Raise("NoAudioAvailableError")
               /\ locals' = locals
    /\ UNCHANGED args

(* lines 1346-1369: the audio file is downloaded; download_file succeeds or
   raises DownloadError, the name downloader.py:23 gives to
   exceptions.DownloadFailedError *)
DownloadAudio ==
    /\ op = "audio chosen"
    /\ IF ~locals.recording_files[locals.audio_file].download_url
       THEN /\ op' = "_handle_download_mode"
            /\ result' = Raise("DownloadFailedError")
            /\ locals' = locals
       ELSE \E download \in {"ok", "DownloadFailedError"} :
                IF download = "ok"
                THEN /\ op' = "audio downloaded"
                     /\ result' = None
                     /\ locals' = [locals EXCEPT !.downloaded_files = Append(@, locals.audio_file)]
                ELSE /\ op' = "_handle_download_mode"
                     /\ result' = Raise(download)
                     /\ locals' = locals
    /\ UNCHANGED args

(* The files download_transcripts_and_chat fetches: those that are not the
   audio file and carry a transcript, a chat or a timeline *)
SidecarFiles(recording_files) ==
    SelectSeq([i \in 1..Len(recording_files) |-> i],
              LAMBDA i : recording_files[i].file_type \in {"TRANSCRIPT", "CHAT", "TIMELINE"})

(* lines 1371-1644: audio extraction from an MP4 (needs ffmpeg), transcripts,
   chat and timeline, metadata, summary *)
FinishDownload ==
    /\ op = "audio downloaded"
    /\ \E ffmpeg \in BOOLEAN :
          IF /\ ExtensionUpper(locals.recording_files[locals.audio_file].file_extension) = "MP4"
             /\ ~ffmpeg
          THEN /\ result' = Raise("FFmpegNotFoundError")
               /\ locals' = locals
          ELSE /\ result' = [kind |-> "returned"]
               /\ locals' = [locals EXCEPT !.downloaded_files =
                                 @ \o SidecarFiles(locals.recording_files)]
    /\ op' = "_handle_download_mode"
    /\ UNCHANGED args

----------------------------------------------------------------------------
(* stj_minimizer: write_minimal_stj_from_file, step by step *)

(* What the file at timeline_path holds: nothing (no such file), a text that
   is no JSON, a JSON value that is no object, or a JSON object *)
NoSuchFile == [kind |-> "no file"]
InvalidJson == [kind |-> "invalid"]
JsonValue(type) == [kind |-> type]
JsonObject(timeline) == [kind |-> "object", val |-> timeline]

(* The Python type json.load gives a JSON value that is no object *)
PyType(content) ==
    CASE content.kind = "array" -> "list"
      [] content.kind = "string" -> "str"
      [] content.kind = "number" -> "int"
      [] content.kind = "null" -> "NoneType"

(* lines 414-416: the exception of open() or json.load() *)
ReadError(content) ==
    IF content.kind = "no file" THEN "FileNotFoundError"
    ELSE IF content.kind = "invalid" THEN "JSONDecodeError"
    ELSE NoError

NoFile == [kind |-> "no file"]     \* nothing at output_path
NoStj == [kind |-> "none"]

FileContents ==
    {NoSuchFile, InvalidJson, JsonValue("array"), JsonValue("string"),
     JsonValue("number"), JsonValue("null")}
        \cup {JsonObject([timeline |-> t, timeline_refine |-> r]) :
                 t \in ZeroValues(UserB), r \in ZeroValues(UserA)}

FileCalls ==
    [timeline_path : {"a/timeline.json", "b/timeline.json"},
     output_path : {"out/a.stj.json"},
     content : FileContents,
     duration_sec : {NoDuration, Duration(Sec(120))}]

(* lines 413-418: the file is opened and parsed; any exception becomes a
   RuntimeError whose message starts with the path *)
ReadTimelineFile ==
    /\ op = "idle"
    /\ \E c \in FileCalls :
          /\ args' = c
          /\ IF ReadError(c.content) # NoError
             THEN /\ op' = "write_minimal_stj_from_file"
                  /\ result' = Raise("RuntimeError")
                  /\ locals' = [message |-> <<"Failed to read timeline JSON: ",
                                              c.timeline_path, ": ", ReadError(c.content)>>,
                                stj |-> NoStj, output_file |-> NoFile]
             ELSE /\ op' = "data read"
                  /\ result' = None
                  /\ locals' = [message |-> <<>>, stj |-> NoStj, output_file |-> NoFile]

(* an exception of timeline_to_minimal_stj leaves the function as it is *)
ConversionFailure(exc, message) ==
    /\ op' = "write_minimal_stj_from_file"
    /\ result' = Raise(exc)
    /\ locals' = [locals EXCEPT !.message = message]

(* lines 420-428: timeline_to_minimal_stj(data, ...), outside the try block.
   Line 307 calls data.get, which only a dict has. *)
ConvertData ==
    /\ op = "data read"
    /\ args' = args
    /\ IF args.content.kind # "object"
       THEN ConversionFailure("AttributeError",
                              <<"'", PyType(args.content), "' object has no attribute 'get'">>)
       ELSE \E out \in {timeline_to_minimal_stj(args.content.val, args.duration_sec, "first",
                                                Sec(1), Sec(1), FALSE)} :
               IF out.error # NoError
               THEN ConversionFailure(out.error, <<out.error>>)
               ELSE /\ op' = "converted"
                    /\ result' = None
                    /\ locals' = [locals EXCEPT !.stj = [kind |-> "stj", val |-> out.stj]]

(* lines 430-434: the document is written to output_path *)
WriteOutput ==
    /\ op = "converted"
    /\ args' = args
    /\ op' = "write_minimal_stj_from_file"
    /\ result' = [kind |-> "path", val |-> args.output_path]
    /\ locals' = [locals EXCEPT !.output_file = locals.stj]

----------------------------------------------------------------------------
(* Specifications *)

Init ==
    /\ op = "idle"
    /\ args = <<>>
    /\ result = None
    /\ locals = <<>>

SelectorNext ==
    \/ SelectBestAudio
    \/ SelectMostRecentInstance
    \/ FilterByUuid
    \/ DetectMultipleInstances

SelectorSpec == Init /\ [][SelectorNext]_vars

Next == TimelineToMinimalStj

(* The converter on all four families of arguments *)
Spec == Init /\ [][Next]_vars

(* The converter on finite timestamps in any order *)
TimingNext == Convert(TimingCalls)

TimingSpec == Init /\ [][TimingNext]_vars

(* The converter on timelines that hold a NaN timestamp *)
NanNext == Convert(NanCalls)

NanSpec == Init /\ [][NanNext]_vars

(* The converter on participants with colliding names *)
NamedNext == Convert(NamedCalls)

NamedSpec == Init /\ [][NamedNext]_vars

(* Conversions of timelines of participants whose slugs collide *)
SlugNext == Convert(SlugCalls)

SlugSpec == Init /\ [][SlugNext]_vars

(* Conversions of timelines with events that have no speaker *)
UnknownNext == Convert(UnknownCalls)

UnknownSpec == Init /\ [][UnknownNext]_vars

(* Conversions of documents with both keys, and malformed timestamps *)
SourceNext == Convert(SourceCalls)

SourceSpec == Init /\ [][SourceNext]_vars

(* Conversions of documents without events *)
ZeroNext == Convert(ZeroCalls)

ZeroSpec == Init /\ [][ZeroNext]_vars

(* Conversions of runs of events of one speaker *)
RunNext == Convert(RunCalls)

RunSpec == Init /\ [][RunNext]_vars

(* Conversions running in several threads, one after another in each *)
ThreadNext == \E t \in Threads : Begin(t) \/ RawLoop(t) \/ Return(t)

ThreadSpec == ThreadInit /\ [][ThreadNext]_vars

(* Calls of _merge_and_filter_segments, the second loop one iteration at a time *)
MergeNext == EnterMergeAndFilter \/ SecondLoopStep \/ ReturnMerged

MergeSpec == Init /\ [][MergeNext]_vars

(* Conversions of timelines of users with assorted identity fields *)
IdentityNext == Convert(IdentityCalls)

IdentitySpec == Init /\ [][IdentityNext]_vars

(* Calls of the download handler, step by step *)
HandlerNext == ChooseInstance \/ DryRun \/ ChooseAudio \/ DownloadAudio \/ FinishDownload

HandlerSpec == Init /\ [][HandlerNext]_vars

(* Calls of write_minimal_stj_from_file, step by step *)
FileNext == ReadTimelineFile \/ ConvertData \/ WriteOutput

FileSpec == Init /\ [][FileNext]_vars

(* Calls of the downloader *)
DownloaderNext == DownloadTranscriptsAndChat

DownloaderSpec == Init /\ [][DownloaderNext]_vars

(* Conversions of timelines with rows of unexpected types *)
RowNext == Convert(RowCalls)

RowSpec == Init /\ [][RowNext]_vars

----------------------------------------------------------------------------
(* Claims about RecordingSelector *)

IdxWithType(files, file_type) == {i \in 1..Len(files) : files[i].file_type = file_type}
IdxWithExt(files, ext) == {i \in 1..Len(files) : files[i].file_extension = ext}

(* C1: select_best_audio returns the first audio_only file of the list if there
   is one (whatever its extension), else the first file with extension M4A,
   else the first with extension MP4, else None. *)
C1_BestAudioPriority ==
    op = "select_best_audio" =>
        LET files == args.recording_files
            ao == IdxWithType(files, "audio_only")
            m4a == IdxWithExt(files, "M4A")
            mp4 == IdxWithExt(files, "MP4")
        IN  IF ao # {} THEN result = Item(MinOf(ao), files[MinOf(ao)])
            ELSE IF m4a # {} THEN result = Item(MinOf(m4a), files[MinOf(m4a)])
            ELSE IF mp4 # {} THEN result = Item(MinOf(mp4), files[MinOf(mp4)])
            ELSE result = None

(* C1 witness: a true M4A file and an MP4 file come before a mislabelled
   audio_only file, and the audio_only file is what came back. *)
C1_Witness ==
    /\ op = "select_best_audio"
    /\ Len(args.recording_files) = 3
    /\ args.recording_files[1] =
           [file_type |-> "shared_screen_with_speaker_view", file_extension |-> "M4A"]
    /\ args.recording_files[2] =
           [file_type |-> "shared_screen_with_speaker_view", file_extension |-> "MP4"]
    /\ args.recording_files[3] = [file_type |-> "audio_only", file_extension |-> "MP4"]
    /\ result.kind = "item"
    /\ result.idx = 3

NoNullStartTime(instances) ==
    \A i \in 1..Len(instances) : instances[i].start_time.t # "null"

(* The string an instance is compared by: a missing start_time is "" *)
StartTimeString(instance) ==
    IF instance.start_time.t = "str" THEN instance.start_time.v ELSE <<>>

(* C2: select_most_recent_instance returns None for an empty list; for a list of
   instances whose start_time is a string or missing (missing compared as "")
   it returns the first element of the list among those with the greatest
   start_time. *)
C2_MostRecentInstance ==
    (op = "select_most_recent_instance" /\ NoNullStartTime(args.instances)) =>
        LET instances == args.instances
        IN  IF instances = <<>> THEN result = None
            ELSE /\ result.kind = "item"
                 /\ result.idx \in 1..Len(instances)
                 /\ result.val = instances[result.idx]
                 /\ \A j \in 1..Len(instances) :
                       ~StrLess(StartTimeString(instances[result.idx]),
                                StartTimeString(instances[j]))
                 /\ \A j \in 1..(result.idx - 1) :
                       StrLess(StartTimeString(instances[j]),
                               StartTimeString(instances[result.idx]))

(* C2 witness: the greatest start_time is shared by the 2nd and 3rd instance,
   the 1st has none, and the 2nd is returned. *)
C2_Witness ==
    /\ op = "select_most_recent_instance"
    /\ Len(args.instances) = 3
    /\ args.instances[1].start_time = Missing
    /\ args.instances[2].start_time = Str(<<"2">>)
    /\ args.instances[3].start_time = Str(<<"2">>)
    /\ args.instances[2] # args.instances[3]
    /\ result.kind = "item"
    /\ result.idx = 2

(* C3: no RecordingSelector operation ever raises. *)
C3_SelectorNeverRaises == result.kind # "raise"
----------------------------------------------------------------------------
(* Claims about timeline_to_minimal_stj *)

Converted == op = "timeline_to_minimal_stj"
OutSegments == result.val.segments
OutSpeakers == result.val.speakers
OutSpeakerIds == {OutSpeakers[i].id : i \in 1..Len(OutSpeakers)}
OutSegmentIds == {OutSegments[i].speaker_id : i \in 1..Len(OutSegments)}

(* The transcript and source block the same call returns for another document *)
ConvertedAlone(timeline) ==
    timeline_to_minimal_stj(timeline, args.duration_sec, args.mode, args.min_segment_sec,
                            args.merge_gap_sec, args.include_unknown).stj

(* C4: when timeline_refine holds a non-empty list the events are exactly its
   events and the document is the one obtained without any timeline key (so no
   timeline event contributes a segment or a speaker); otherwise, when
   timeline holds a non-empty list, the events are its events; when neither
   does, there are no events, no segments and no speakers. *)
C4_RefinePrecedence ==
    Converted =>
        LET timeline == args.timeline.timeline
            refine == args.timeline.timeline_refine
        IN  IF refine.t = "list" /\ refine.v # <<>>
            THEN /\ locals.entries = refine.v
                 /\ result.val = ConvertedAlone([timeline |-> Missing, timeline_refine |-> refine])
                 /\ timeline.t = "list" =>
                        \A i \in 1..Len(timeline.v) :
                           \A u \in 1..Len(timeline.v[i].users.v) :
                              LET user == timeline.v[i].users.v[u]
                              IN  (\A j \in 1..Len(refine.v) :
                                      \A w \in 1..Len(refine.v[j].users.v) :
                                         refine.v[j].users.v[w] # user)
                                  => Slugify(DisplayName(user)) \notin OutSpeakerIds \cup OutSegmentIds
            ELSE IF timeline.t = "list" /\ timeline.v # <<>>
            THEN /\ locals.entries = timeline.v
                 /\ \/ refine = Missing    \* the call itself is the one without timeline_refine
                    \/ result.val = ConvertedAlone([timeline |-> timeline,
                                                    timeline_refine |-> Missing])
            ELSE /\ locals.entries = <<>>
                 /\ OutSegments = <<>>
                 /\ OutSpeakers = <<>>

(* C4 witness: every timeline_refine event is unusable (malformed ts), timeline
   has a usable one, and the output has no segment. *)
C4_Witness ==
    /\ Converted
    /\ args.timeline.timeline_refine.t = "list"
    /\ args.timeline.timeline_refine.v # <<>>
    /\ \A i \in 1..Len(args.timeline.timeline_refine.v) :
          args.timeline.timeline_refine.v[i].ts = TsBad
    /\ args.timeline.timeline.t = "list"
    /\ \E i \in 1..Len(args.timeline.timeline.v) : args.timeline.timeline.v[i].ts # TsBad
    /\ result.val.timeline_source = "timeline_refine"
    /\ OutSegments = <<>>
    /\ OutSpeakers = <<>>

(* C5: every output segment has end > start strictly, both being rounded to
   3 decimal places. *)
C5_EndAfterStart ==
    Converted =>
        \A i \in 1..Len(OutSegments) :
            /\ FLess(OutSegments[i].start, OutSegments[i].end)
            /\ Round3(OutSegments[i].start) = OutSegments[i].start
            /\ Round3(OutSegments[i].end) = OutSegments[i].end

(* C5 witness: with min_segment_sec = 0 a segment of positive length left
   _merge_and_filter_segments, rounding collapsed it and it was dropped, while
   another segment was kept. *)
C5_Witness ==
    /\ Converted
    /\ args.min_segment_sec = Num(0)
    /\ Len(OutSegments) < Len(locals.segments)
    /\ OutSegments # <<>>

(* C6: consecutive output segments do not overlap: e1 <= s2, whatever the
   order of the timestamps in the source array. *)
C6_NoOverlap ==
    Converted =>
        \A i \in 1..(Len(OutSegments) - 1) :
            FLessEq(OutSegments[i].end, OutSegments[i + 1].start)

(* C7: the output segments are ordered by start ascending. *)
C7_StartAscending ==
    Converted =>
        \A i \in 1..(Len(OutSegments) - 1) :
            FLessEq(OutSegments[i].start, OutSegments[i + 1].start)

(* C8: every entry of the output speakers array is referenced by at least one
   output segment. *)
C8_SpeakersReferenced ==
    Converted => OutSpeakerIds \subseteq OutSegmentIds

(* C9: the speaker_id of every output segment is the id of an entry of the
   speakers array of the same document. *)
C9_SegmentsReferToSpeakers ==
    Converted => OutSegmentIds \subseteq OutSpeakerIds

(* C9 witness: a document with a "multiple" segment, an "unknown" segment and
   a participant's segment. *)
C9_Witness ==
    /\ Converted
    /\ MultipleId \in OutSegmentIds
    /\ UnknownId \in OutSegmentIds
    /\ Slugify(<<"a">>) \in OutSegmentIds

(* C10: two users with different identity keys are never assigned the same
   speaker id, and no participant is assigned the id of a synthetic speaker
   of the conversion ("multiple" under mode "multiple", "unknown" under
   include_unknown). *)
C10_UniqueSpeakerIds ==
    Converted =>
        /\ \A k1, k2 \in DOMAIN locals.identity_to_id :
              k1 # k2 => locals.identity_to_id[k1] # locals.identity_to_id[k2]
        /\ \A k \in DOMAIN locals.identity_to_id :
              /\ args.mode = "multiple" => locals.identity_to_id[k] # MultipleId
              /\ args.include_unknown => locals.identity_to_id[k] # UnknownId

----------------------------------------------------------------------------
(* Claims about the speaker registry *)

RECURSIVE SeenUsers(_)
(* The users of the entries in the order the registry sees them *)
SeenUsers(entries) ==
    IF entries = <<>> THEN <<>>
    ELSE UsersOrEmpty(entries[1]) \o SeenUsers(Tail(entries))

SeenKeys(seen) == {UserIdentityKey(seen[i]) : i \in 1..Len(seen)}
FirstSeen(seen, key) == MinOf({i \in 1..Len(seen) : UserIdentityKey(seen[i]) = key})
BaseSlugOf(seen, key) == Take(Slugify(DisplayName(seen[FirstSeen(seen, key)])), MaxSpeakerIdLen)

(* key is the k-th identity seen among those of its base slug *)
RankOf(seen, key) ==
    Cardinality({other \in SeenKeys(seen) :
                    /\ FirstSeen(seen, other) <= FirstSeen(seen, key)
                    /\ BaseSlugOf(seen, other) = BaseSlugOf(seen, key)})

(* b-k as written: the base slug, a hyphen, the number *)
PlainSuffixed(b, k) == IF k = 1 THEN b ELSE b \o <<"-">> \o IntToStr(k)

(* b-k within the 64-character budget: b is cut to leave room for the suffix
   and loses the hyphens the cut leaves at its end *)
BudgetSuffixed(b, k) ==
    LET suffix == <<"-">> \o IntToStr(k)
        cut == RStrip(SubSeq(b, 1, MinOf({Len(b), MaxSpeakerIdLen - Len(suffix)})), "-")
    IN  IF k = 1 THEN b ELSE cut \o suffix

(* C11 as stated: the k-th identity seen with base slug b has the id b-k (b for
   k = 1), identities seen again keeping their id and using up no number. *)
C11_SuffixByOrder ==
    Converted =>
        LET seen == SeenUsers(locals.entries)
        IN  /\ DOMAIN locals.identity_to_id = SeenKeys(seen)
            /\ \A key \in SeenKeys(seen) :
                  locals.identity_to_id[key] =
                      PlainSuffixed(BaseSlugOf(seen, key), RankOf(seen, key))

(* C11 amended: the k-th identity seen with base slug b (k >= 2) has the id
   b-k where b is first cut to 64 - len("-k") characters and stripped of
   trailing hyphens, so that the id fits 64 characters; the first has the id b;
   identities seen again keep their id and use up no number. *)
C11_SuffixWithinBudget ==
    Converted =>
        LET seen == SeenUsers(locals.entries)
        IN  /\ DOMAIN locals.identity_to_id = SeenKeys(seen)
            /\ \A key \in SeenKeys(seen) :
                  /\ locals.identity_to_id[key] =
                         BudgetSuffixed(BaseSlugOf(seen, key), RankOf(seen, key))
                  /\ Len(locals.identity_to_id[key]) <= MaxSpeakerIdLen

(* C11 witness: an identity is seen twice before another of the same name, which
   gets the suffix 2; the third event's participant is the 64-letter name cut
   to make room for its suffix. *)
C11_Witness ==
    /\ Converted
    /\ Len(locals.entries) = 3
    /\ SeenUsers(locals.entries) = <<Long1, Long1, Long2>>
    /\ locals.identity_to_id[UserIdentityKey(Long2)] =
           Repeat("b", MaxSpeakerIdLen - 2) \o <<"-", "2">>

(* The raw segments that start at the timestamp of entry i *)
RawSegmentsOf(i) ==
    {j \in 1..Len(locals.raw_segments) :
        locals.raw_segments[j].start = ParseHhmmssMs(locals.entries[i].ts).val}

(* Under mode "multiple" every event of several users is labelled "multiple" *)
SeveralUsersLabelledMultiple ==
    \A i \in 1..Len(locals.entries) :
        (Len(UsersOrEmpty(locals.entries[i])) > 1 /\ ParseHhmmssMs(locals.entries[i].ts).ok)
            => /\ RawSegmentsOf(i) # {}
               /\ \A j \in RawSegmentsOf(i) : locals.raw_segments[j].speaker_id = MultipleId

(* The speakers array has the entry "multiple" named "Multiple speakers" *)
MultipleSpeakerListed ==
    \E i \in 1..Len(OutSpeakers) :
        OutSpeakers[i].id = MultipleId /\ OutSpeakers[i].name = MultipleName

(* C12: under mode "multiple" every event that lists more than one user is
   labelled "multiple", and whenever an output segment has the speaker_id
   "multiple" the speakers array holds the entry with id "multiple" and name
   "Multiple speakers", whatever the participants are called. *)
C12_MultipleLabelled ==
    (Converted /\ args.mode = "multiple") =>
        /\ SeveralUsersLabelledMultiple
        /\ MultipleId \in OutSegmentIds => MultipleSpeakerListed

(* The users value with every user but the first removed *)
FirstUserOnly(users) ==
    IF users.t = "list" /\ Len(users.v) > 1 THEN List(<<users.v[1]>>) ELSE users

(* The timeline or timeline_refine value with only the first user of each event *)
FirstUsersOnly(field) ==
    IF field.t = "list"
    THEN List([i \in 1..Len(field.v) |-> [field.v[i] EXCEPT !.users = FirstUserOnly(@)]])
    ELSE field

(* C13: under mode "first" the speakers and segments are those of the same
   timeline with every non-first user removed from every event. *)
C13_OnlyFirstUserCounts ==
    (Converted /\ args.mode = "first") =>
        LET alone == ConvertedAlone([timeline |-> FirstUsersOnly(args.timeline.timeline),
                                     timeline_refine |->
                                         FirstUsersOnly(args.timeline.timeline_refine)])
        IN  /\ OutSpeakers = alone.speakers
            /\ OutSegments = alone.segments

----------------------------------------------------------------------------
(* Claims about the raw segments *)

(* Entry i lists no user: its users are missing, null or empty *)
Unresolved(i) == UsersOrEmpty(locals.entries[i]) = <<>>

(* Entry i has a timestamp that parses *)
Timed(i) == ParseHhmmssMs(locals.entries[i].ts).ok

TimeOf(i) == ParseHhmmssMs(locals.entries[i].ts).val

(* The end the raw segment of entry i is given: the next entry's timestamp,
   its own when that is malformed; for the last entry the duration, its own
   timestamp when none was given *)
EndOf(i) ==
    IF i < Len(locals.entries)
    THEN (IF Timed(i + 1) THEN TimeOf(i + 1) ELSE TimeOf(i))
    ELSE (IF args.duration_sec.given THEN args.duration_sec.val ELSE TimeOf(i))

(* Entry i contributes a raw segment *)
Contributes(i) == Timed(i) /\ (~Unresolved(i) \/ args.include_unknown)

(* The position in raw_segments of the segment of entry i *)
RawIndex(i) == Cardinality({j \in 1..i : Contributes(j)})

(* C14: an event without users contributes the raw segment (its timestamp, the
   next entry's timestamp, "unknown") when include_unknown is true and none
   when it is false; either way its timestamp ends the raw segment of the
   event before it. *)
C14_UnknownEvents ==
    Converted =>
        /\ Len(locals.raw_segments) = RawIndex(Len(locals.entries))
        /\ \A i \in 1..Len(locals.entries) :
              /\ (Timed(i) /\ Unresolved(i) /\ args.include_unknown) =>
                     locals.raw_segments[RawIndex(i)] = Seg(TimeOf(i), EndOf(i), UnknownId)
              /\ (Timed(i) /\ ~Unresolved(i)) =>
                     /\ locals.raw_segments[RawIndex(i)].start = TimeOf(i)
                     /\ locals.raw_segments[RawIndex(i)].end = EndOf(i)

(* C14 witness: include_unknown is false, a participant's event is followed by
   an event whose users are missing and then by another of the participant:
   two raw segments, the first ending at the timestamp of the skipped event. *)
C14_Witness ==
    /\ Converted
    /\ ~args.include_unknown
    /\ Len(locals.entries) = 3
    /\ locals.entries[1] = [ts |-> Hms(0, 0, 0), users |-> List(<<UserA>>)]
    /\ locals.entries[2] = [ts |-> Hms(0, 0, TicksPerSec), users |-> Missing]
    /\ locals.entries[3] = [ts |-> Hms(0, 0, 2 * TicksPerSec), users |-> List(<<UserA>>)]
    /\ Len(locals.raw_segments) = 2
    /\ locals.raw_segments[1].end = Sec(1)

(* Entry i has a timestamp of the form HH:MM:SS[.mmm] *)
WellFormed(i) == locals.entries[i].ts.form = "hms"

(* The time that follows entry i once the malformed entries are left out: the
   timestamp of the next well-formed entry, else the duration; none at all
   when entry i is the last well-formed one and no duration was given *)
LaterWellFormed(i) == {j \in (i + 1)..Len(locals.entries) : WellFormed(j)}
HasTimeAfter(i) == LaterWellFormed(i) # {} \/ args.duration_sec.given
TimeAfter(i) ==
    IF LaterWellFormed(i) # {} THEN TimeOf(MinOf(LaterWellFormed(i)))
    ELSE args.duration_sec.val

(* C15: a malformed ts skips that one event and nothing else: the malformed
   event contributes no raw segment, every well-formed event with a speaker
   contributes one, and the event just before a malformed one keeps a segment
   of positive length when time passes after it. *)
C15_MalformedSkipsOneEvent ==
    Converted =>
        /\ Len(locals.raw_segments) =
               Cardinality({i \in 1..Len(locals.entries) :
                               WellFormed(i) /\ (~Unresolved(i) \/ args.include_unknown)})
        /\ \A i \in 1..(Len(locals.entries) - 1) :
              (/\ WellFormed(i)
               /\ ~WellFormed(i + 1)
               /\ ~Unresolved(i) \/ args.include_unknown
               /\ HasTimeAfter(i)
               /\ FLess(TimeOf(i), TimeAfter(i)))
                  => \E j \in 1..Len(locals.raw_segments) :
                        /\ locals.raw_segments[j].start = TimeOf(i)
                        /\ FLess(locals.raw_segments[j].start, locals.raw_segments[j].end)

----------------------------------------------------------------------------
(* Claims about anomalous input *)

(* C16: when the timeline value is a list the conversion returns a document
   and does not raise, whatever its rows contain. *)
C16_RowsNeverRaise ==
    (Converted /\ args.timeline.timeline.t = "list") => result.kind = "stj"

----------------------------------------------------------------------------
(* Claims about documents without events *)

HoldsEvents(field) == field.t = "list" /\ Len(field.v) > 0
ZeroEvents ==
    ~HoldsEvents(args.timeline.timeline) /\ ~HoldsEvents(args.timeline.timeline_refine)

(* C17: a document with zero events converts without error to a document with
   no speakers, no segments and has_timeline false, for every mode, with or
   without include_unknown and duration_sec; and has_timeline is true exactly
   when timeline_refine or, failing that, timeline holds at least one event. *)
C17_ZeroEvents ==
    Converted =>
        /\ ZeroEvents =>
              /\ result.kind = "stj"
              /\ OutSpeakers = <<>>
              /\ OutSegments = <<>>
              /\ result.val.has_timeline = FALSE
        /\ result.kind = "stj" => (result.val.has_timeline <=> ~ZeroEvents)

C17_Witness ==
    /\ Converted
    /\ args.timeline.timeline = List(<<>>)
    /\ args.timeline.timeline_refine = Missing
    /\ args.include_unknown
    /\ args.mode = "multiple"
    /\ args.duration_sec.given
    /\ result.kind = "stj"
    /\ OutSpeakers = <<>>
    /\ OutSegments = <<>>
    /\ ~result.val.has_timeline

----------------------------------------------------------------------------
(* Claims about merging and filtering *)

MaxOf(S) == CHOOSE x \in S : \A y \in S : y <= x

(* The timeline is one run: every event has a timestamp and resolves to the
   same speaker, the timestamps ascend, and the merge gap is not negative *)
OneRun ==
    /\ Converted
    /\ result.kind = "stj"
    /\ Len(locals.entries) > 0
    /\ Len(locals.raw_segments) = Len(locals.entries)
    /\ \A i \in 1..Len(locals.entries) :
          /\ WellFormed(i)
          /\ locals.raw_segments[i].speaker_id = locals.raw_segments[1].speaker_id
    /\ \A i \in 1..(Len(locals.entries) - 1) : FLessEq(TimeOf(i), TimeOf(i + 1))
    /\ FLessEq(Num(0), args.merge_gap_sec)

(* The pieces of the run of positive length, and the end of the last of them *)
PositivePieces == {i \in 1..Len(locals.entries) : FLess(TimeOf(i), EndOf(i))}
RunStart == TimeOf(1)
RunStop == EndOf(MaxOf(PositivePieces))

(* The run has a piece of positive length and is at least min_segment_sec long *)
LongRun ==
    /\ OneRun
    /\ PositivePieces # {}
    /\ FLessEq(args.min_segment_sec, FSub(RunStop, RunStart))

(* The one segment of the run, rounded as every output segment is *)
RunSegment == Seg(Round3(RunStart), Round3(RunStop), locals.raw_segments[1].speaker_id)

(* C18 as stated: a run of events of one speaker that is at least
   min_segment_sec long gives exactly one segment, from the first event's
   timestamp to the end of the run's last piece of positive length. *)
C18_RunGivesOneSegment ==
    LongRun => OutSegments = <<RunSegment>>

(* C18: such a run gives exactly that one segment when its two ends still
   differ once rounded to the millisecond, and no segment when they do not;
   its short pieces are absorbed. *)
C18_VisibleRunGivesOneSegment ==
    LongRun =>
        OutSegments = IF FLess(Round3(RunStart), Round3(RunStop))
                      THEN <<RunSegment>> ELSE <<>>

(* C18 witness: events of one speaker at 0 s, 0.6 s and 2 s of a recording of
   3 s, min_segment_sec 1 and merge_gap_sec 1.5 give the one segment (0, 3). *)
C18_Witness ==
    /\ LongRun
    /\ Len(locals.entries) = 3
    /\ TimeOf(1) = Num(0)
    /\ TimeOf(2) = Num(6 * (TicksPerSec \div 10))
    /\ TimeOf(3) = Sec(2)
    /\ args.duration_sec = Duration(Sec(3))
    /\ args.min_segment_sec = Sec(1)
    /\ args.merge_gap_sec = Num(15 * (TicksPerSec \div 10))
    /\ Len(OutSegments) = 1
    /\ OutSegments[1].start = Num(0)
    /\ OutSegments[1].end = Sec(3)

----------------------------------------------------------------------------
(* Claims about the downloader *)

Downloaded == op = "download_transcripts_and_chat"

Elems(q) == {q[i] : i \in 1..Len(q)}

(* The files the writer was called for and raised *)
FailedWrites == {i \in Elems(locals.writes) : args.recording_files[i].write # "ok"}

(* The same call when the writer fails for no file *)
WithoutFailures ==
    download_transcripts_and_chat(
        [args EXCEPT !.recording_files =
            [i \in 1..Len(args.recording_files) |->
                [args.recording_files[i] EXCEPT !.write = "ok"]]])

(* C19: a file the writer raised for keeps its timeline path in the result and
   gets no speakers path, and the call goes on as if the writer had not
   failed: it raises only if it raises without the failure, downloads the same
   files, calls the writer for the same files and collects the same
   transcripts, chats and timelines. *)
C19_SidecarFailureDoesNotAbort ==
    Downloaded =>
        /\ \A i \in FailedWrites :
              /\ i \in Elems(locals.timeline)
              /\ i \notin Elems(locals.speakers)
        /\ locals.error = WithoutFailures.error
        /\ locals.downloads = WithoutFailures.downloads
        /\ locals.writes = WithoutFailures.writes
        /\ locals.vtt = WithoutFailures.vtt
        /\ locals.txt = WithoutFailures.txt
        /\ locals.timeline = WithoutFailures.timeline
        /\ Elems(locals.speakers) = Elems(WithoutFailures.speakers) \ FailedWrites

(* C19 witness: the writer raises for the first of two timeline files and
   succeeds for the second; the call returns both timeline paths and the
   second speakers path. *)
C19_Witness ==
    /\ Downloaded
    /\ Len(args.recording_files) = 2
    /\ args.recording_files[1].write = "RuntimeError"
    /\ result.kind = "files"
    /\ result.val.timeline = <<1, 2>>
    /\ result.val.speakers = <<2>>
    /\ locals.writes = <<1, 2>>

(* The values of DLZOOM_SPEAKERS that, trimmed and lower-cased, read "0",
   "false", "no" or "off" *)
SkippingEnvValues ==
    {Setenv(<<"0">>), Setenv(<<"F", "A", "L", "S", "E", " ">>),
     Setenv(<<" ", "O", "f", "f">>), Setenv(<<"n", "o">>)}

(* The tri-state: skip_speakers when given, else the environment *)
SpeakersWanted ==
    IF args.skip_speakers = Bool(TRUE) THEN FALSE
    ELSE IF args.skip_speakers = Bool(FALSE) THEN TRUE
    ELSE args.env \notin SkippingEnvValues

(* C20: with skip_speakers True the writer is never called; with False it is
   called for every timeline file that was downloaded, whatever
   DLZOOM_SPEAKERS says; with None it is called for every such file unless
   DLZOOM_SPEAKERS reads 0, false, no or off; and it is called for no other
   file. *)
C20_SpeakersTriState ==
    Downloaded =>
        locals.writes = IF SpeakersWanted THEN locals.timeline ELSE <<>>

(* C20 witness: skip_speakers is False, DLZOOM_SPEAKERS is "0", and of two
   timeline files the second is downloaded: the writer is called for it
   alone. *)
C20_Witness ==
    /\ Downloaded
    /\ args.skip_speakers = Bool(FALSE)
    /\ args.env = Setenv(<<"0">>)
    /\ Len(args.recording_files) = 2
    /\ args.recording_files[1].download = "DownloadError"
    /\ locals.downloads = <<1, 2>>
    /\ locals.timeline = <<2>>
    /\ locals.writes = <<2>>

----------------------------------------------------------------------------
(* Claims about concurrent conversions *)

(* The document the call of thread t returns when it runs alone *)
AloneResult(t) ==
    timeline_to_minimal_stj(args[t].timeline, args[t].duration_sec, args[t].mode,
                            args[t].min_segment_sec, args[t].merge_gap_sec,
                            args[t].include_unknown).stj

(* C21: whatever other conversions ran before or run meanwhile, a call returns
   the speakers and segments it returns when run alone, and the timeline it
   was given is the one it was given. *)
C21_CallsAreIndependent ==
    \A t \in Threads :
        /\ op[t] # "idle" => locals.frame[t].timeline = args[t].timeline
        /\ op[t] = "returned" =>
              /\ result[t].val.speakers = AloneResult(t).speakers
              /\ result[t].val.segments = AloneResult(t).segments

(* C21 witness: thread 1 returned the two speakers a and a-2 of its document
   while thread 2 is in the middle of converting another document in which
   the second of them comes first. *)
C21_Witness ==
    /\ op[1] = "returned"
    /\ op[2] = "ingested"
    /\ args[1].timeline = OnlyTimeline(<<ThreadEvent(0, Alex1), ThreadEvent(1, Alex2)>>)
    /\ args[2].timeline = OnlyTimeline(<<ThreadEvent(0, Alex2), ThreadEvent(1, Alex1)>>)
    /\ Len(result[1].val.speakers) = 2
    /\ Len(result[1].val.segments) = 2

----------------------------------------------------------------------------
(* Claims about the ends of the raw segments *)

(* The end stated for the raw segment of entry i: the timestamp of entry i + 1,
   for the last entry the duration, its own timestamp when none was given *)
StatedEnd(i) ==
    IF i < Len(locals.entries) THEN TimeOf(i + 1)
    ELSE IF args.duration_sec.given THEN args.duration_sec.val
    ELSE TimeOf(i)

(* The entries that contribute a raw segment, in source order *)
Contributing == SelectSeq([i \in 1..Len(locals.entries) |-> i], Contributes)

(* The rounded segments that the raw segments without the last one give *)
WithoutLastRaw ==
    RoundSegments(MergeAndFilterSegments(
        SubSeq(locals.raw_segments, 1, Len(locals.raw_segments) - 1),
        args.min_segment_sec, args.merge_gap_sec))

(* C22: the raw segments are those of the contributing entries in source
   order, each from its own timestamp to the timestamp of the next entry of
   the source array (speaker or not), the last to the duration; without a
   duration the raw segment of the last entry has zero length and the output
   is what it is without that segment. *)
C22_RawSegmentEnds ==
    Converted =>
        /\ Len(locals.raw_segments) = Len(Contributing)
        /\ \A k \in 1..Len(Contributing) :
              /\ locals.raw_segments[k].start = TimeOf(Contributing[k])
              /\ locals.raw_segments[k].end = StatedEnd(Contributing[k])
        /\ (/\ ~args.duration_sec.given
            /\ locals.entries # <<>>
            /\ Contributes(Len(locals.entries))) =>
              LET last == locals.raw_segments[Len(locals.raw_segments)]
              IN  /\ last.start = TimeOf(Len(locals.entries))
                  /\ last.end = last.start
                  /\ OutSegments = WithoutLastRaw

(* C22 witness: no duration; the participant speaks at 0 s, an event without
   users follows at 1 s and is skipped, the participant's last event is at 2 s,
   within the merge gap of the first segment: the output is that first segment
   alone, ending at 1 s. *)
C22_Witness ==
    /\ Converted
    /\ ~args.duration_sec.given
    /\ ~args.include_unknown
    /\ Len(locals.entries) = 3
    /\ locals.entries[1] = [ts |-> Hms(0, 0, 0), users |-> List(<<UserA>>)]
    /\ locals.entries[2] = [ts |-> Hms(0, 0, TicksPerSec), users |-> List(<<>>)]
    /\ locals.entries[3] = [ts |-> Hms(0, 0, 2 * TicksPerSec), users |-> List(<<UserA>>)]
    /\ locals.raw_segments = <<Seg(Num(0), Sec(1), Slugify(<<"A">>)), Seg(Sec(2), Sec(2), Slugify(<<"A">>))>>
    /\ Len(OutSegments) = 1
    /\ OutSegments[1].end = Sec(1)

----------------------------------------------------------------------------
(* Claims about _merge_and_filter_segments *)

(* The second loop is about to handle merged[i] *)
InSecondLoop == op = "second loop" /\ locals.i <= Len(locals.merged)

(* One iteration of the second loop does what is stated for merged[i] *)
SecondPassOrder ==
    InSecondLoop =>
        LET i == locals.i
            cur == locals.merged[i]
            kept == locals.result
            n == Len(kept)
        IN  IF FLessEq(args.min_segment_sec, FSub(cur.end, cur.start))
            THEN /\ locals'.result = Append(kept, cur)
                 /\ locals'.merged = locals.merged
            ELSE IF n > 0 /\ kept[n].speaker_id = cur.speaker_id
            THEN /\ locals'.merged = locals.merged
                 /\ Len(locals'.result) = n
                 /\ SubSeq(locals'.result, 1, n - 1) = SubSeq(kept, 1, n - 1)
                 /\ locals'.result[n].start = kept[n].start
                 /\ locals'.result[n].speaker_id = kept[n].speaker_id
                 /\ locals'.result[n].end \in {kept[n].end, cur.end}
                 /\ FLessEq(kept[n].end, locals'.result[n].end)
                 /\ FLessEq(cur.end, locals'.result[n].end)
            ELSE IF i < Len(locals.merged) /\ locals.merged[i + 1].speaker_id = cur.speaker_id
            THEN /\ locals'.result = kept
                 /\ locals'.merged =
                        [locals.merged EXCEPT ![i + 1] =
                            Seg(cur.start,
                                IF FLess(cur.end, locals.merged[i + 1].end)
                                THEN locals.merged[i + 1].end ELSE cur.end,
                                cur.speaker_id)]
            ELSE /\ locals'.result = kept
                 /\ locals'.merged = locals.merged

(* C23: every iteration of the second pass keeps a segment of at least
   min_segment_sec as it is; a shorter one extends the end of the last output
   segment when that has its speaker, else moves the start of the next merged
   segment back to its own start (and the end to the larger end) when that has
   its speaker, else is dropped and changes nothing. *)
C23_SecondPassOrder == [][SecondPassOrder]_vars

(* C23 witness: merge gap 0; a's segment 0-2 s was kept, b's short segment
   2-2.5 s found a's segment last in the output and was fused into b's next
   segment 3-3.5 s, which now runs from 2 to 3.5 s. *)
C23_Witness ==
    /\ op = "second loop"
    /\ args.merge_gap_sec = Num(0)
    /\ args.segments = <<Seg(Tenths(0), Tenths(20), <<"a">>),
                         Seg(Tenths(20), Tenths(25), <<"b">>),
                         Seg(Tenths(30), Tenths(35), <<"b">>)>>
    /\ locals.i = 3
    /\ locals.result = <<Seg(Tenths(0), Tenths(20), <<"a">>)>>
    /\ locals.merged[3] = Seg(Tenths(20), Tenths(35), <<"b">>)


(* _merge_and_filter_segments has returned a list *)
Merged == op = "_merge_and_filter_segments"

(* Output segments k and k + 1 have the same speaker and lie within the gap *)
CloseSameSpeaker(k) ==
    /\ result.val[k].speaker_id = result.val[k + 1].speaker_id
    /\ FLessEq(FSub(result.val[k + 1].start, result.val[k].end), args.merge_gap_sec)

(* A segment of the first loop's list, of another speaker and shorter than
   min_segment_sec, starts between the starts of output segments k and k + 1 *)
ShortOtherBetween(k) ==
    \E j \in 1..Len(locals.merged) :
        /\ locals.merged[j].speaker_id # result.val[k].speaker_id
        /\ ~FLessEq(args.min_segment_sec, FSub(locals.merged[j].end, locals.merged[j].start))
        /\ FLessEq(result.val[k].start, locals.merged[j].start)
        /\ FLessEq(locals.merged[j].start, result.val[k + 1].start)

(* C29 as stated: the returned list has no two consecutive segments of one
   speaker with a gap of at most merge_gap_sec. *)
C29_NoCloseSameSpeakerPair ==
    (Merged /\ args.segments # <<>>) =>
        \A k \in 1..(Len(result.val) - 1) : ~CloseSameSpeaker(k)

(* C29 amended: two consecutive segments of one speaker in the list of the
   first pass lie further apart than merge_gap_sec; so do two consecutive
   returned segments of one speaker, except where a short segment of another
   speaker between them was dropped by the second pass. *)
C29_CloseSameSpeakerPairOnlyAroundDropped ==
    /\ (op = "second loop" /\ locals.i = 1) =>
          \A k \in 1..(Len(locals.merged) - 1) :
              locals.merged[k].speaker_id = locals.merged[k + 1].speaker_id =>
                  ~FLessEq(FSub(locals.merged[k + 1].start, locals.merged[k].end),
                           args.merge_gap_sec)
    /\ (Merged /\ args.segments # <<>>) =>
          \A k \in 1..(Len(result.val) - 1) : CloseSameSpeaker(k) => ShortOtherBetween(k)

(* C29 witness: merge gap 2 s; a's segments 0-2 s and 4-6 s with b's short
   segment 2-2.5 s between them: b's segment is dropped and a's two segments
   are returned side by side, 2 s apart. *)
C29_Witness ==
    /\ Merged
    /\ args.merge_gap_sec = Sec(2)
    /\ args.segments = <<Seg(Tenths(0), Tenths(20), <<"a">>),
                         Seg(Tenths(20), Tenths(25), <<"b">>),
                         Seg(Tenths(40), Tenths(60), <<"a">>)>>
    /\ result.val = <<Seg(Tenths(0), Tenths(20), <<"a">>), Seg(Tenths(40), Tenths(60), <<"a">>)>>

(* The starts and the ends of the raw segments of speaker sid *)
RawStarts(sid) ==
    {args.segments[j].start : j \in {n \in 1..Len(args.segments) : args.segments[n].speaker_id = sid}}
RawEnds(sid) ==
    {args.segments[j].end : j \in {n \in 1..Len(args.segments) : args.segments[n].speaker_id = sid}}

(* C30: every returned segment starts where a raw segment of its speaker
   starts and ends where a raw segment of its speaker ends. *)
C30_NoInventedBoundaries ==
    Merged =>
        \A k \in 1..Len(result.val) :
            /\ result.val[k].start \in RawStarts(result.val[k].speaker_id)
            /\ result.val[k].end \in RawEnds(result.val[k].speaker_id)

(* C30 witness: merge gap 0; a's segment 0-2 s is kept and b's short segment
   2-2.5 s is fused into b's segment 3-3.5 s: b's returned segment runs from
   the start of one raw segment of b to the end of another. *)
C30_Witness ==
    /\ Merged
    /\ args.merge_gap_sec = Num(0)
    /\ args.segments = <<Seg(Tenths(0), Tenths(20), <<"a">>),
                         Seg(Tenths(20), Tenths(25), <<"b">>),
                         Seg(Tenths(30), Tenths(35), <<"b">>)>>
    /\ result.val = <<Seg(Tenths(0), Tenths(20), <<"a">>), Seg(Tenths(20), Tenths(35), <<"b">>)>>

----------------------------------------------------------------------------
(* Claims about the length of the output segments *)

(* Every timestamp of the timeline is a whole number of milliseconds *)
MillisecondTimestamps ==
    \A i \in 1..Len(locals.entries) :
        /\ locals.entries[i].ts.form = "hms"
        /\ locals.entries[i].ts.sec % TicksPerMs = 0

(* C28: with timestamps of millisecond precision every output segment is at
   least min_segment_sec long. *)
C28_OutputSegmentsLongEnough ==
    (Converted /\ MillisecondTimestamps) =>
        \A k \in 1..Len(OutSegments) :
            FLessEq(args.min_segment_sec, FSub(OutSegments[k].end, OutSegments[k].start))

(* C28 witness: min_segment_sec 1 s and a negative merge gap, so that the first
   pass merges nothing; the participant's events at 0 s and 0.6 s of a 3 s
   recording: the span 0-0.6 s is shorter than a second and survives as part
   of the one output segment 0-3 s. *)
C28_Witness ==
    /\ Converted
    /\ args.min_segment_sec = Sec(1)
    /\ args.merge_gap_sec = Num(0 - TicksPerSec)
    /\ args.duration_sec = Duration(Sec(3))
    /\ locals.entries = <<[ts |-> Hms(0, 0, 0), users |-> List(<<UserA>>)],
                          [ts |-> Hms(0, 0, 6 * (TicksPerSec \div 10)), users |-> List(<<UserA>>)]>>
    /\ Len(locals.raw_segments) = 2
    /\ OutSegments = <<[start |-> Num(0), end |-> Sec(3), speaker_id |-> Slugify(<<"A">>)]>>

----------------------------------------------------------------------------
(* Claims about identities *)

(* The identity key as stated: the trimmed zoom_userid when it is not empty,
   else the user_id, else the lower-cased username, else the whole dict (which
   its hash stands for) *)
StatedKey(user) ==
    IF StrippedOrEmpty(user.zoom_userid) # <<>>
    THEN <<"zoom_userid", StrippedOrEmpty(user.zoom_userid)>>
    ELSE IF StrStripped(user.user_id) # <<>>
    THEN <<"user_id", StrStripped(user.user_id)>>
    ELSE IF StrippedOrEmpty(user.username) # <<>>
    THEN <<"username", LowerStr(StrippedOrEmpty(user.username))>>
    ELSE <<"dict", JsonDumps(user)>>

(* The one user of entry i and the speaker its event was given *)
UserOf(i) == locals.entries[i].users.v[1]
SpeakerOf(i) == locals.raw_segments[i].speaker_id

(* Every entry has one user and gave a raw segment *)
OneUserEach ==
    /\ Len(locals.raw_segments) = Len(locals.entries)
    /\ \A i \in 1..Len(locals.entries) : Len(UsersOrEmpty(locals.entries[i])) = 1

(* C24: two users resolve to the same speaker exactly when their identity keys
   are equal, and the speaker has the name of the first user seen with its
   key. *)
C24_SameSpeakerIffSameKey ==
    (Converted /\ OneUserEach) =>
        \A i, j \in 1..Len(locals.entries) :
            /\ (SpeakerOf(i) = SpeakerOf(j)) <=> (StatedKey(UserOf(i)) = StatedKey(UserOf(j)))
            /\ (/\ i <= j
                /\ StatedKey(UserOf(i)) = StatedKey(UserOf(j))
                /\ (\A h \in 1..(i - 1) : StatedKey(UserOf(h)) # StatedKey(UserOf(i))))
                  => locals.registered[SpeakerOf(j)].name = DisplayName(UserOf(i))

----------------------------------------------------------------------------
(* Claims about the download handler *)

(* The handler got past the availability check and the response lists
   instances *)
InstancesListed ==
    /\ op # "idle"
    /\ args.wait = "no wait"
    /\ args.recordings.meetings.t = "list"
    /\ args.recordings.meetings.v # <<>>

(* The instances of the response whose uuid is the recording_id *)
UuidMatches ==
    {i \in 1..Len(args.recordings.meetings.v) :
        args.recordings.meetings.v[i].uuid = args.recording_id.v}

(* The first instance of the response among those with the greatest start_time *)
MostRecent ==
    LET meetings == args.recordings.meetings.v
    IN  MinOf({i \in 1..Len(meetings) :
                 \A j \in 1..Len(meetings) :
                     ~StrLess(StartTimeString(meetings[i]), StartTimeString(meetings[j]))})

(* C25: with a recording_id (a text that is not empty) the handler works with
   the first instance whose uuid equals it, and raises InvalidRecordingIDError,
   with no instance chosen and nothing downloaded, when there is none; without
   one it works with the most recent of several instances and with the only
   instance of one. *)
C25_InstanceByRecordingId ==
    InstancesListed =>
        IF Truthy(args.recording_id)
        THEN IF UuidMatches = {}
             THEN /\ op = "_handle_download_mode"
                  /\ result = Raise("InvalidRecordingIDError")
                  /\ locals.instance = NoInstance
                  /\ locals.downloaded_files = <<>>
             ELSE /\ locals.instance = FromMeetings(MinOf(UuidMatches))
                  /\ result # Raise("InvalidRecordingIDError")
        ELSE /\ result # Raise("InvalidRecordingIDError")
             /\ locals.instance =
                    IF Len(args.recordings.meetings.v) > 1 THEN FromMeetings(MostRecent)
                    ELSE FromMeetings(1)

(* C25 witness: the response lists two instances u1 and u2 with audio, the
   recording_id is u3: InvalidRecordingIDError, although a most recent
   instance exists. *)
C25_Witness ==
    /\ InstancesListed
    /\ args.recording_id = RecordingId("u3")
    /\ Len(args.recordings.meetings.v) = 2
    /\ args.recordings.meetings.v[1].uuid = "u1"
    /\ args.recordings.meetings.v[2].uuid = "u2"
    /\ args.recordings.meetings.v[1].recording_files = <<AudioFile, ChatFile>>
    /\ args.recordings.meetings.v[2].recording_files = <<AudioFile, ChatFile>>
    /\ StrLess(args.recordings.meetings.v[1].start_time.v, args.recordings.meetings.v[2].start_time.v)
    /\ result = Raise("InvalidRecordingIDError")

(* The handler came to choose the audio file of the instance *)
ReachedAudioChoice ==
    /\ op \in {"audio chosen", "audio downloaded", "_handle_download_mode"}
    /\ ~args.dry_run
    /\ locals.recording_files # <<>>

(* C26: whenever select_best_audio returns None for the recording files of the
   instance, the handler raises NoAudioAvailableError and has downloaded
   nothing. *)
C26_NoAudioRaises ==
    (ReachedAudioChoice /\ select_best_audio(locals.recording_files) = None) =>
        /\ op = "_handle_download_mode"
        /\ result = Raise("NoAudioAvailableError")
        /\ locals.downloaded_files = <<>>

----------------------------------------------------------------------------
(* Claims about write_minimal_stj_from_file *)

(* The file holds no JSON *)
NotJson == args.content.kind = "invalid"

(* The file holds JSON of the wrong shape: the document is no object, or its
   "timeline" is there and no list *)
WrongShape ==
    \/ args.content.kind \in {"array", "string", "number", "null"}
    \/ /\ args.content.kind = "object"
       /\ args.content.val.timeline.t = "notlist"

(* The call failed with an error whose message holds the path of the timeline
   file *)
FailedNamingFile ==
    /\ op = "write_minimal_stj_from_file"
    /\ result.kind = "raise"
    /\ \E k \in 1..Len(locals.message) : locals.message[k] = args.timeline_path

(* C27: for a file that is no JSON or JSON of the wrong shape, the call fails
   with an error that names the timeline file, and nothing is written to
   output_path. *)
C27_MalformedDocumentFails ==
    (op \in {"converted", "write_minimal_stj_from_file"} /\ (NotJson \/ WrongShape)) =>
        /\ FailedNamingFile
        /\ locals.output_file = NoFile
====
